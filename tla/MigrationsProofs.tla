-------------------------- MODULE MigrationsProofs --------------------------
(***************************************************************************)
(* Proofs about the migrations, for any number of operators.               *)
(***************************************************************************)
EXTENDS Migrations, SequenceTheorems, TLAPS

\* Sequences as such, whatever their members are.
IsSequence(s) == s \in Seq(ToSet(s))

\* The members of a concatenation.
LEMMA ConcatMembers ==
    ASSUME NEW s, NEW t, IsSequence(s), IsSequence(t)
    PROVE  IsSequence(s \o t) /\ ToSet(s \o t) = ToSet(s) \cup ToSet(t)
<1> DEFINE S == ToSet(s) \cup ToSet(t)
<1>0. s \in Seq(S) /\ t \in Seq(S)
  BY SeqMonotonic DEF IsSequence
<1> HIDE DEF S
<1>1. /\ s \o t \in Seq(S) /\ Len(s \o t) = Len(s) + Len(t)
      /\ Len(s) \in Nat /\ Len(t) \in Nat
      /\ \A i \in 1..Len(s) + Len(t) :
            (s \o t)[i] = IF i <= Len(s) THEN s[i] ELSE t[i - Len(s)]
  BY <1>0, ConcatProperties, LenProperties
<1>2. /\ DOMAIN s = 1..Len(s) /\ DOMAIN t = 1..Len(t)
      /\ DOMAIN (s \o t) = 1..(Len(s) + Len(t))
  BY <1>0, <1>1, LenProperties
<1> DEFINE u == s \o t
<1> HIDE DEF u
<1>3. ToSet(u) \subseteq ToSet(s) \cup ToSet(t)
  <2> SUFFICES ASSUME NEW i \in 1..(Len(s) + Len(t))
               PROVE  u[i] \in ToSet(s) \cup ToSet(t)
    BY <1>2 DEF ToSet, u
  <2>1. CASE i <= Len(s)
    BY <1>1, <1>2, <2>1 DEF ToSet, u
  <2>2. CASE ~(i <= Len(s))
    <3>1. u[i] = t[i - Len(s)] /\ i - Len(s) \in 1..Len(t)
      BY <1>1, <2>2 DEF u
    <3> QED BY <1>2, <3>1 DEF ToSet
  <2> QED BY <2>1, <2>2
<1>4. ASSUME NEW i \in 1..Len(s) PROVE s[i] \in ToSet(u)
  <2>1. i \in 1..(Len(s) + Len(t)) /\ u[i] = s[i]
    BY <1>1 DEF u
  <2> QED BY <1>2, <2>1 DEF ToSet, u
<1>5. ASSUME NEW i \in 1..Len(t) PROVE t[i] \in ToSet(u)
  <2>1. i + Len(s) \in 1..(Len(s) + Len(t)) /\ u[i + Len(s)] = t[i]
    BY <1>1 DEF u
  <2> QED BY <1>2, <2>1 DEF ToSet, u
<1>6. ToSet(u) = S
  BY <1>2, <1>3, <1>4, <1>5 DEF ToSet, S
<1> QED BY <1>1, <1>6 DEF S, u, IsSequence

\* The statements for a list of indexes.
LEMMA IndexesMembers ==
    ASSUME NEW names, IsSequence(names), NEW does, NEW table
    PROVE  LET u == Indexes(does, names, table) IN
           /\ IsSequence(u)
           /\ \A s \in ToSet(u) : \E n \in ToSet(names) : s = Statement(does, Index(n, table))
<1>1. DOMAIN names = 1..Len(names) /\ Len(names) \in Nat
  BY LenProperties DEF IsSequence
<1> DEFINE u == Indexes(does, names, table)
<1>2. u = [i \in 1..Len(names) |-> Statement(does, Index(names[i], table))]
  BY <1>1 DEF Indexes
<1> HIDE DEF u
<1>3. u \in [1..Len(names) -> ToSet(u)] /\ DOMAIN u = 1..Len(names)
  BY <1>2 DEF ToSet
<1>4. u \in Seq(ToSet(u))
  BY <1>1, <1>3, SeqDef
<1>5. \A s \in ToSet(u) : \E n \in ToSet(names) : s = Statement(does, Index(n, table))
  BY <1>1, <1>2, <1>3 DEF ToSet
<1> QED BY <1>4, <1>5 DEF u, IsSequence

-----------------------------------------------------------------------------
\* What the proofs need to know of the migrations themselves.

\* The names that the first migration does not use.
LaterNames ==
    {"search_vector", "ix_evidence_span_search_vector", "vector", "evidence_embedding",
     "ix_embedding_tenant_model", "alembic_version", "ix_source_record_tenant_id"}

Early(s) == s.object.name \notin LaterNames /\ \A r \in s.object.refs : r \notin LaterNames

AllEarly(does, u) ==
    /\ IsSequence(u)
    /\ \A s \in ToSet(u) : s.does = does /\ Early(s)

\* Statements about early objects.
LEMMA EarlyTogether ==
    ASSUME NEW does, NEW u, NEW v, AllEarly(does, u), AllEarly(does, v)
    PROVE  AllEarly(does, u \o v)
BY ConcatMembers DEF AllEarly

\* A single one.
LEMMA EarlyStatement ==
    ASSUME NEW does, NEW o, o.name \notin LaterNames, \A r \in o.refs : r \notin LaterNames
    PROVE  Statement(does, o).does = does /\ Early(Statement(does, o))
BY DEF Statement, Early

\* The indexes of an early table.
LEMMA EarlyIndexes ==
    ASSUME NEW does, NEW names, IsSequence(names), NEW table,
           table \notin LaterNames, \A n \in ToSet(names) : n \notin LaterNames
    PROVE  AllEarly(does, Indexes(does, names, table))
<1>1. ASSUME NEW n \in ToSet(names)
      PROVE  LET s == Statement(does, Index(n, table)) IN s.does = does /\ Early(s)
  <2>1. Index(n, table).name = n /\ Index(n, table).refs = {table}
    BY DEF Index, Object
  <2> QED BY <2>1, EarlyStatement
<1> QED BY <1>1, IndexesMembers DEF AllEarly

\* The objects of the first migration, one by one.
LEMMA EarlyObjects ==
    /\ \A o \in {source_record, evidence_span, commercial_assertion, workflow_state,
                 ix_workflow_tenant_id, outbox_event, ix_outbox_tenant_id} :
          /\ o.name \notin LaterNames /\ \A r \in o.refs : r \notin LaterNames
    /\ \A names \in {span_indexes, assertion_indexes} :
          IsSequence(names) /\ \A n \in ToSet(names) : n \notin LaterNames
<1> USE DEF Object, LaterNames
<1>1. source_record.name = "source_record" /\ source_record.refs = {}
  BY DEF source_record, Table
<1>2. evidence_span.name = "evidence_span" /\ evidence_span.refs = {"source_record"}
  BY DEF evidence_span, Table
<1>3. commercial_assertion.name = "commercial_assertion" /\ commercial_assertion.refs = {}
  BY DEF commercial_assertion, Table
<1>4. workflow_state.name = "workflow_state" /\ workflow_state.refs = {}
  BY DEF workflow_state, Table
<1>5. /\ ix_workflow_tenant_id.name = "ix_workflow_tenant_id"
      /\ ix_workflow_tenant_id.refs = {"workflow_state"}
  BY DEF ix_workflow_tenant_id, Index
<1>6. outbox_event.name = "outbox_event" /\ outbox_event.refs = {}
  BY DEF outbox_event, Table
<1>7. /\ ix_outbox_tenant_id.name = "ix_outbox_tenant_id"
      /\ ix_outbox_tenant_id.refs = {"outbox_event"}
  BY DEF ix_outbox_tenant_id, Index
<1>8. IsSequence(span_indexes) /\ \A n \in ToSet(span_indexes) : n \notin LaterNames
  BY DEF span_indexes, IsSequence, ToSet
<1>9. IsSequence(assertion_indexes) /\ \A n \in ToSet(assertion_indexes) : n \notin LaterNames
  BY DEF assertion_indexes, IsSequence, ToSet
<1> QED BY <1>1, <1>2, <1>3, <1>4, <1>5, <1>6, <1>7, <1>8, <1>9

\* The first upgrade only creates, and nothing that a later migration names.
LEMMA InitialFacts == AllEarly("create", upgrade_initial)
<1> DEFINE a == <<Create(source_record), Create(evidence_span)>>
           b == Indexes("create", span_indexes, "evidence_span")
           c == <<Create(commercial_assertion)>>
           d == Indexes("create", assertion_indexes, "commercial_assertion")
           e == <<Create(workflow_state), Create(ix_workflow_tenant_id),
                  Create(outbox_event), Create(ix_outbox_tenant_id)>>
<1>1. \A o \in {source_record, evidence_span, commercial_assertion, workflow_state,
                ix_workflow_tenant_id, outbox_event, ix_outbox_tenant_id} :
         Create(o).does = "create" /\ Early(Create(o))
  BY EarlyObjects, EarlyStatement DEF Create
<1>2. AllEarly("create", a) /\ AllEarly("create", c) /\ AllEarly("create", e)
  BY <1>1 DEF AllEarly, IsSequence, ToSet
<1>3. AllEarly("create", b) /\ AllEarly("create", d)
  <2>1. "evidence_span" \notin LaterNames /\ "commercial_assertion" \notin LaterNames
    BY DEF LaterNames
  <2> QED BY <2>1, EarlyObjects, EarlyIndexes
<1>4. upgrade_initial = a \o b \o c \o d \o e
  BY DEF upgrade_initial
<1> HIDE DEF a, b, c, d, e
<1>5. AllEarly("create", a \o b)
  BY <1>2, <1>3, EarlyTogether
<1>6. AllEarly("create", a \o b \o c)
  BY <1>2, <1>5, EarlyTogether
<1>7. AllEarly("create", a \o b \o c \o d)
  BY <1>3, <1>6, EarlyTogether
<1>8. AllEarly("create", a \o b \o c \o d \o e)
  BY <1>2, <1>7, EarlyTogether
<1> QED BY <1>4, <1>8

\* A list read backwards is a list.
LEMMA Backwards ==
    ASSUME NEW names, IsSequence(names)
    PROVE  IsSequence(Reverse(names))
<1>1. Len(names) \in Nat /\ names \in [1..Len(names) -> ToSet(names)]
  BY LenProperties DEF IsSequence
<1> DEFINE r == Reverse(names)
<1>2. r = [i \in 1..Len(names) |-> names[(Len(names) - i) + 1]]
  BY DEF Reverse
<1> HIDE DEF r
<1>3. r \in [1..Len(names) -> ToSet(r)]
  BY <1>1, <1>2 DEF ToSet
<1>4. r \in Seq(ToSet(r))
  BY <1>1, <1>3, SeqDef
<1> QED BY <1>4 DEF r, IsSequence

\* The downgrade of 0001 only drops, and among the rest the index that no upgrade
\* created.
LEMMA InitialDowngrade ==
    /\ IsSequence(downgrade_initial)
    /\ \A s \in ToSet(downgrade_initial) : s.does = "drop"
    /\ Drop(ix_source_record_tenant_id) \in ToSet(downgrade_initial)
<1> DEFINE Drops(u) == IsSequence(u) /\ \A s \in ToSet(u) : s.does = "drop"
           a == <<Drop(ix_outbox_tenant_id), Drop(outbox_event),
                  Drop(ix_workflow_tenant_id), Drop(workflow_state)>>
           b == Indexes("drop", Reverse(assertion_indexes), "commercial_assertion")
           c == <<Drop(commercial_assertion)>>
           d == Indexes("drop", Reverse(span_indexes), "evidence_span")
           e == <<Drop(evidence_span), Drop(ix_source_record_tenant_id), Drop(source_record)>>
<1>1. \A o : Drop(o).does = "drop"
  BY DEF Drop, Statement
<1>2. Drops(a) /\ Drops(c) /\ Drops(e) /\ Drop(ix_source_record_tenant_id) \in ToSet(e)
  BY <1>1 DEF IsSequence, ToSet
<1>3. Drops(b) /\ Drops(d)
  <2>1. IsSequence(Reverse(assertion_indexes)) /\ IsSequence(Reverse(span_indexes))
    BY Backwards, EarlyObjects
  <2>2. \A o : Statement("drop", o).does = "drop"
    BY DEF Statement
  <2> QED BY <2>1, <2>2, IndexesMembers
<1>4. downgrade_initial = a \o b \o c \o d \o e
  BY DEF downgrade_initial
<1> HIDE DEF a, b, c, d, e
<1>5. ASSUME NEW u, NEW v, Drops(u), Drops(v)
      PROVE  Drops(u \o v) /\ ToSet(u \o v) = ToSet(u) \cup ToSet(v)
  BY <1>5, ConcatMembers
<1> HIDE DEF Drops
<1>6. Drops(a \o b)
  BY <1>2, <1>3, <1>5
<1>7. Drops(a \o b \o c)
  BY <1>2, <1>5, <1>6
<1>8. Drops(a \o b \o c \o d)
  BY <1>3, <1>5, <1>7
<1>9. /\ Drops(a \o b \o c \o d \o e)
      /\ Drop(ix_source_record_tenant_id) \in ToSet(a \o b \o c \o d \o e)
  BY <1>2, <1>5, <1>8
<1> QED BY <1>4, <1>9 DEF Drops

\* The objects of the later migrations.
LEMMA LaterObjects ==
    /\ search_vector.name = "search_vector" /\ search_vector.refs = {"evidence_span"}
    /\ ix_evidence_span_search_vector.name = "ix_evidence_span_search_vector"
    /\ ix_evidence_span_search_vector.refs = {"search_vector"}
    /\ vector.name = "vector" /\ vector.refs = {}
    /\ evidence_embedding.name = "evidence_embedding"
    /\ evidence_embedding.refs = {"evidence_span", "vector"}
    /\ ix_embedding_tenant_model.name = "ix_embedding_tenant_model"
    /\ ix_embedding_tenant_model.refs = {"evidence_embedding"}
    /\ alembic_version.name = "alembic_version" /\ alembic_version.refs = {}
    /\ ix_source_record_tenant_id.name = "ix_source_record_tenant_id"
BY DEF search_vector, ix_evidence_span_search_vector, vector, evidence_embedding,
       ix_embedding_tenant_model, alembic_version, ix_source_record_tenant_id,
       Table, Index, Object

\* The statements of the later migrations.
LEMMA LaterStatements ==
    /\ \A u \in {upgrades[2], upgrades[3], downgrades[2], downgrades[3]} : IsSequence(u)
    /\ ToSet(upgrades[2]) = {Create(search_vector), Create(ix_evidence_span_search_vector)}
    /\ ToSet(downgrades[2]) = {Drop(ix_evidence_span_search_vector), Drop(search_vector)}
    /\ ToSet(upgrades[3]) = {CreateIfMissing(vector), Create(evidence_embedding),
                             Create(ix_embedding_tenant_model)}
    /\ ToSet(downgrades[3]) = {Drop(ix_embedding_tenant_model), Drop(evidence_embedding)}
<1>1. upgrades[2] = upgrade_retrieval /\ upgrades[3] = upgrade_vector
  BY DEF upgrades
<1>2. downgrades[2] = downgrade_retrieval /\ downgrades[3] = downgrade_vector
  BY DEF downgrades
<1>3. \A a, b : ToSet(<<a, b>>) = {a, b} /\ IsSequence(<<a, b>>)
  BY DEF ToSet, IsSequence
<1>4. \A a, b, c : ToSet(<<a, b, c>>) = {a, b, c} /\ IsSequence(<<a, b, c>>)
  BY DEF ToSet, IsSequence
<1> QED
  BY <1>1, <1>2, <1>3, <1>4
  DEF upgrade_retrieval, upgrade_vector, downgrade_retrieval, downgrade_vector

Objects(u) == {s.object : s \in ToSet(u)}

\* What each upgrade adds.
LEMMA UptoFacts ==
    /\ Upto(0) = {}
    /\ Upto(1) = Objects(upgrade_initial)
    /\ Upto(2) = Upto(1) \cup {search_vector, ix_evidence_span_search_vector}
    /\ Upto(3) = Upto(2) \cup {vector, evidence_embedding, ix_embedding_tenant_model}
<1> DEFINE T(i) == ToSet(upgrades[i])
<1>1. /\ 1..0 = {} /\ 1..1 = {1} /\ 1..2 = {1, 2} /\ 1..3 = {1, 2, 3}
  OBVIOUS
<1>2. /\ UNION {T(i) : i \in {}} = {} /\ UNION {T(i) : i \in {1}} = T(1)
      /\ UNION {T(i) : i \in {1, 2}} = T(1) \cup T(2)
      /\ UNION {T(i) : i \in {1, 2, 3}} = T(1) \cup T(2) \cup T(3)
  <2> HIDE DEF T
  <2> QED OBVIOUS
<1>3. T(1) = ToSet(upgrade_initial)
  BY DEF upgrades
<1>4. \A o : Create(o).object = o /\ CreateIfMissing(o).object = o
  BY DEF Create, CreateIfMissing, Statement
<1>5. /\ Objects(upgrades[2]) = {search_vector, ix_evidence_span_search_vector}
      /\ Objects(upgrades[3]) = {vector, evidence_embedding, ix_embedding_tenant_model}
  BY <1>4, LaterStatements DEF Objects
<1>6. /\ Upto(0) = {} /\ Upto(1) = Objects(upgrade_initial)
      /\ Upto(2) = Upto(1) \cup Objects(upgrades[2])
      /\ Upto(3) = Upto(2) \cup Objects(upgrades[3])
  <2>1. /\ Upto(0) = {s.object : s \in {}} /\ Upto(1) = {s.object : s \in T(1)}
        /\ Upto(2) = {s.object : s \in T(1) \cup T(2)}
        /\ Upto(3) = {s.object : s \in T(1) \cup T(2) \cup T(3)}
    BY <1>1, <1>2 DEF Upto
  <2>2. /\ Objects(upgrade_initial) = {s.object : s \in T(1)}
        /\ Objects(upgrades[2]) = {s.object : s \in T(2)}
        /\ Objects(upgrades[3]) = {s.object : s \in T(3)}
    BY <1>3 DEF Objects
  <2> HIDE DEF T
  <2> QED BY <2>1, <2>2
<1> QED BY <1>5, <1>6

\* The objects that no downgrade removes.
Kept == {vector, alembic_version}

All == Upto(3) \cup {alembic_version}

\* The names of the last migration.
VectorNames == {"vector", "evidence_embedding", "ix_embedding_tenant_model"}

\* The objects of the first migrations have nothing to do with the later ones.
LEMMA Apart ==
    /\ \A o \in Upto(1) : o.name \notin LaterNames /\ \A r \in o.refs : r \notin LaterNames
    /\ \A o \in Upto(2) : o.name \notin VectorNames
    /\ ix_source_record_tenant_id \notin All /\ alembic_version \notin Upto(3)
<1>1. \A o \in Upto(1) : o.name \notin LaterNames /\ \A r \in o.refs : r \notin LaterNames
  BY InitialFacts, UptoFacts DEF AllEarly, Early, Objects
<1>2. \A o \in Upto(2) : o.name \notin VectorNames
  BY <1>1, LaterObjects, UptoFacts DEF LaterNames, VectorNames
<1>3. \A o \in Upto(3) :
         o.name \notin {"ix_source_record_tenant_id", "alembic_version"}
  BY <1>1, LaterObjects, UptoFacts DEF LaterNames
<1>4. ix_source_record_tenant_id \notin All /\ alembic_version \notin Upto(3)
  BY <1>3, LaterObjects DEF All
<1> QED BY <1>1, <1>2, <1>4

\* What disappears with an object keeps to a set of names to which all the objects
\* belong that name one of them.
LEMMA CascadeWithin ==
    ASSUME NEW N, NEW objects, NEW o, o.name \in N,
           \A p \in objects :
              p.kind \in {"index", "column"} /\ p.refs \cap N # {} => p.name \in N
    PROVE  o \in Cascade(o, objects) /\ \A p \in Cascade(o, objects) : p.name \in N
<1> DEFINE with(names) == {p \in objects : p.kind \in {"index", "column"} /\ p.refs \cap names # {}}
           columns == with({o.name})
<1>1. ASSUME NEW names, names \subseteq N
      PROVE  \A p \in with(names) : p.name \in N
  BY <1>1
<1>2. \A p \in columns : p.name \in N
  BY <1>1
<1>3. Names(columns) \subseteq N
  BY <1>2 DEF Names
<1>4. \A p \in with(Names(columns)) : p.name \in N
  BY <1>1, <1>3
<1>5. Cascade(o, objects) = {o} \cup columns \cup with(Names(columns))
  BY DEF Cascade
<1> QED BY <1>2, <1>4, <1>5

\* The downgrades of the later migrations take nothing of an earlier one with them.
LEMMA CascadeStays ==
    ASSUME NEW i \in {2, 3}, NEW s \in ToSet(downgrades[i]), NEW objects \in SUBSET All
    PROVE  /\ s.object \in Cascade(s.object, objects)
           /\ Cascade(s.object, objects) \cap Upto(i - 1) = {}
<1>0. \A o : Drop(o).object = o
  BY DEF Drop, Statement
<1>1. CASE i = 2
  <2>1. s.object.name \in LaterNames
    BY <1>0, <1>1, LaterObjects, LaterStatements DEF LaterNames
  <2>2. \A p \in objects :
           p.kind \in {"index", "column"} /\ p.refs \cap LaterNames # {} => p.name \in LaterNames
    BY Apart, UptoFacts, LaterObjects DEF All, LaterNames
  <2>3. /\ s.object \in Cascade(s.object, objects)
        /\ \A p \in Cascade(s.object, objects) : p.name \in LaterNames
    BY <2>1, <2>2, CascadeWithin
  <2> QED BY <1>1, <2>3, Apart
<1>2. CASE i = 3
  <2>1. s.object.name \in VectorNames
    BY <1>0, <1>2, LaterObjects, LaterStatements DEF VectorNames
  <2>2. \A p \in objects :
           p.kind \in {"index", "column"} /\ p.refs \cap VectorNames # {} => p.name \in VectorNames
    BY Apart, UptoFacts, LaterObjects DEF All, LaterNames, VectorNames
  <2>3. /\ s.object \in Cascade(s.object, objects)
        /\ \A p \in Cascade(s.object, objects) : p.name \in VectorNames
    BY <2>1, <2>2, CascadeWithin
  <2> QED BY <1>2, <2>3, Apart
<1> QED BY <1>1, <1>2

\* What is there up to one revision is there up to the later ones.
LEMMA UptoGrows ==
    ASSUME NEW i \in 0..3, NEW j \in 0..3, i <= j
    PROVE  Upto(i) \subseteq Upto(j)
<1>1. 0..3 = {0, 1, 2, 3}
  OBVIOUS
<1> QED BY <1>1, UptoFacts

\* What the steps need to know of the upgrades.
LEMMA UpgradeFacts ==
    /\ \A i \in 0..3 : Upto(i) \subseteq All
    /\ \A i \in 1..3 :
          /\ IsSequence(upgrades[i])
          /\ Upto(i) = Upto(i - 1) \cup Objects(upgrades[i])
          /\ \A s \in ToSet(upgrades[i]) :
                /\ s.does \in {"create", "create if missing"}
                /\ s.does = "create if missing" => s.object \in Kept
                /\ s.object \in Upto(i)
<1>1. 0..3 = {0, 1, 2, 3} /\ 1..3 = {1, 2, 3}
  OBVIOUS
<1>2. upgrades[1] = upgrade_initial
  BY DEF upgrades
<1>3. \A o : Create(o).object = o /\ CreateIfMissing(o).object = o
  BY DEF Create, CreateIfMissing, Statement
<1>3a. \A o : Create(o).does = "create" /\ CreateIfMissing(o).does = "create if missing"
  BY DEF Create, CreateIfMissing, Statement
<1>5. \A i \in 0..3 : Upto(i) \subseteq All
  BY <1>1, UptoFacts DEF All
<1>6. \A i \in 1..3 : IsSequence(upgrades[i])
  BY <1>1, <1>2, InitialFacts, LaterStatements DEF AllEarly
<1>7. \A i \in 1..3 : Upto(i) = Upto(i - 1) \cup Objects(upgrades[i])
  <2>1. /\ Objects(upgrades[2]) = {search_vector, ix_evidence_span_search_vector}
        /\ Objects(upgrades[3]) = {vector, evidence_embedding, ix_embedding_tenant_model}
    BY <1>3, LaterStatements DEF Objects
  <2> QED BY <1>1, <1>2, <2>1, UptoFacts
<1>8. ASSUME NEW i \in 1..3, NEW s \in ToSet(upgrades[i])
      PROVE  /\ s.does \in {"create", "create if missing"}
             /\ s.does = "create if missing" => s.object \in Kept
             /\ s.object \in Upto(i)
  <2>1. s.object \in Upto(i)
    BY <1>7 DEF Objects
  <2>2. CASE i = 1
    BY <1>2, <2>1, <2>2, InitialFacts DEF AllEarly
  <2>3. CASE i = 2
    <3>1. PICK o : s = Create(o)
      BY <2>3, LaterStatements
    <3> QED BY <1>3a, <2>1, <3>1
  <2>4. CASE i = 3
    <3>1. s = CreateIfMissing(vector) \/ \E o : s = Create(o)
      BY <2>4, LaterStatements
    <3>2. CASE s = CreateIfMissing(vector)
      BY <1>3, <1>3a, <2>1, <3>2 DEF Kept
    <3>3. CASE \E o : s = Create(o)
      BY <1>3a, <2>1, <3>3
    <3> QED BY <3>1, <3>2, <3>3
  <2> QED BY <1>1, <2>2, <2>3, <2>4
<1> QED BY <1>5, <1>6, <1>7, <1>8

\* What they need to know of the downgrades.
LEMMA DowngradeFacts ==
    /\ \A i \in 1..3 :
          IsSequence(downgrades[i]) /\ \A s \in ToSet(downgrades[i]) : s.does = "drop"
    /\ Drop(ix_source_record_tenant_id) \in ToSet(downgrades[1])
    /\ \A i \in {2, 3} : Upto(i) \ Kept \subseteq Upto(i - 1) \cup Objects(downgrades[i])
<1>1. 1..3 = {1, 2, 3}
  OBVIOUS
<1>2. downgrades[1] = downgrade_initial
  BY DEF downgrades
<1>3. \A o : Drop(o).object = o /\ Drop(o).does = "drop"
  BY DEF Drop, Statement
<1>4. \A i \in 1..3 :
         IsSequence(downgrades[i]) /\ \A s \in ToSet(downgrades[i]) : s.does = "drop"
  BY <1>1, <1>2, <1>3, InitialDowngrade, LaterStatements
<1>5. \A i \in {2, 3} : Upto(i) \ Kept \subseteq Upto(i - 1) \cup Objects(downgrades[i])
  <2>1. /\ Objects(downgrades[2]) = {search_vector, ix_evidence_span_search_vector}
        /\ Objects(downgrades[3]) = {evidence_embedding, ix_embedding_tenant_model}
    BY <1>3, LaterStatements DEF Objects
  <2> QED BY <2>1, UptoFacts DEF Kept
<1> QED BY <1>2, <1>4, <1>5, InitialDowngrade

-----------------------------------------------------------------------------
\* The invariant.

\* The objects of the statements that a command has executed of its migration.
Executed(c) ==
    {Migration(c)[i].object : i \in {j \in DOMAIN Migration(c) : j < c.next}}

Shape(c) ==
    /\ DOMAIN c = {"at", "target", "next", "made", "dropped", "stamped", "locks", "found"}
    /\ c.at \in 0..3 /\ c.target \in 0..3 /\ c.found.revision \in 0..3
    /\ c.next \in Nat /\ c.stamped \in BOOLEAN /\ c.made \subseteq All
    /\ c.at = c.target => c.next <= 1

\* A command that has nothing to do does nothing.
Idle(c) ==
    c.target = c.found.revision =>
        c.at = c.target /\ c.made \subseteq Kept /\ c.dropped = {}

\* An upgrade has made the objects of the migrations it has done, those of the one
\* it is in as far as it got, and no others.
Upgrading(c) ==
    c.found.revision < c.target =>
        /\ c.found.revision <= c.at /\ c.at <= c.target /\ c.dropped = {}
        /\ Upto(c.at) \ (Upto(c.found.revision) \cup Kept) \subseteq c.made
        /\ c.made \ Kept \subseteq Upto(IF c.at = c.target THEN c.at ELSE c.at + 1)
        /\ c.at # c.target => Executed(c) \ Kept \subseteq c.made

\* A downgrade has dropped them, unless it is in the one of 0001: that one never
\* gets beyond the index that is not there.
Downgrading(c) ==
    c.target < c.found.revision =>
        /\ c.target <= c.at /\ c.at <= c.found.revision /\ c.at > 0 /\ c.made \subseteq Kept
        /\ IF c.at = 1 /\ c.target = 0
           THEN ix_source_record_tenant_id \notin Executed(c)
           ELSE /\ Upto(c.found.revision) \ (Upto(c.at) \cup Kept) \subseteq c.dropped
                /\ (c.dropped \ Kept) \cap Upto(IF c.at = c.target THEN c.at ELSE c.at - 1) = {}
                /\ c.at # c.target => Executed(c) \ Kept \subseteq c.dropped

\* The first stamp of a command tells it that the revision is still the one it
\* found, and the lock it takes with it keeps the others from changing it.
Stamped(c, r) ==
    /\ c.stamped <=> c.at # c.found.revision
    /\ c.stamped => "alembic_version" \in c.locks /\ r = c.found.revision

CommandInv(c, r) == Shape(c) /\ Idle(c) /\ Upgrading(c) /\ Downgrading(c) /\ Stamped(c, r)

MigrationsInv ==
    /\ revision \in 0..3
    /\ schema \subseteq All
    /\ schema \ Kept = Upto(revision) \ Kept
    /\ command = [op \in Operators |-> command[op]]
    /\ \A op \in Operators : command[op] # None => CommandInv(command[op], revision)
    /\ \A p, q \in Operators :
          /\ command[p] # None /\ command[p].stamped
          /\ command[q] # None /\ command[q].stamped
          => p = q

-----------------------------------------------------------------------------
\* How a command goes on.

\* What Proceed makes of a command.
After(c, made, dropped, locks) ==
    [c EXCEPT !.next = @ + 1,
              !.made = (@ \ dropped) \cup made,
              !.dropped = (@ \ made) \cup dropped,
              !.locks = @ \cup locks]

\* What Advance makes of it.
Further(c, locks) ==
    [c EXCEPT !.at = Following(c), !.next = 1, !.stamped = TRUE, !.locks = @ \cup locks]

\* Field by field.
LEMMA AfterFields ==
    ASSUME NEW c, Shape(c), NEW made, NEW dropped, NEW locks
    PROVE  LET d == After(c, made, dropped, locks) IN
           /\ DOMAIN d = DOMAIN c
           /\ d.at = c.at /\ d.target = c.target /\ d.next = c.next + 1
           /\ d.made = (c.made \ dropped) \cup made
           /\ d.dropped = (c.dropped \ made) \cup dropped
           /\ d.stamped = c.stamped /\ d.locks = c.locks \cup locks /\ d.found = c.found
           /\ Migration(d) = Migration(c)
<1> DEFINE d == After(c, made, dropped, locks)
<1>1. /\ DOMAIN d = DOMAIN c
      /\ d.at = c.at /\ d.target = c.target /\ d.next = c.next + 1
      /\ d.made = (c.made \ dropped) \cup made
      /\ d.dropped = (c.dropped \ made) \cup dropped
      /\ d.stamped = c.stamped /\ d.locks = c.locks \cup locks /\ d.found = c.found
  BY DEF After, Shape
<1> QED BY <1>1 DEF Migration

\* The same for Further.
LEMMA FurtherFields ==
    ASSUME NEW c, Shape(c), NEW locks
    PROVE  LET d == Further(c, locks) IN
           /\ DOMAIN d = DOMAIN c
           /\ d.at = Following(c) /\ d.target = c.target /\ d.next = 1
           /\ d.made = c.made /\ d.dropped = c.dropped /\ d.stamped = TRUE
           /\ d.locks = c.locks \cup locks /\ d.found = c.found
BY DEF Further, Shape

\* The migration a command is in.
LEMMA InMigration ==
    ASSUME NEW c, NEW r, CommandInv(c, r), c.at # c.target
    PROVE  /\ \/ /\ c.found.revision < c.target /\ c.at < c.target /\ c.at + 1 \in 1..3
                 /\ Migration(c) = upgrades[c.at + 1] /\ Following(c) = c.at + 1
              \/ /\ c.target < c.found.revision /\ c.target < c.at /\ c.at \in 1..3
                 /\ Migration(c) = downgrades[c.at] /\ Following(c) = c.at - 1
           /\ IsSequence(Migration(c))
           /\ Len(Migration(c)) \in Nat /\ DOMAIN Migration(c) = 1..Len(Migration(c))
           /\ \A s \in ToSet(Migration(c)) : s.does # "stamp"
<1>1. \/ c.found.revision < c.target /\ c.at < c.target
      \/ c.target < c.found.revision /\ c.target < c.at
  BY DEF CommandInv, Shape, Idle, Upgrading, Downgrading
<1>2. \/ /\ c.found.revision < c.target /\ c.at < c.target /\ c.at + 1 \in 1..3
         /\ Migration(c) = upgrades[c.at + 1] /\ Following(c) = c.at + 1
      \/ /\ c.target < c.found.revision /\ c.target < c.at /\ c.at \in 1..3
         /\ Migration(c) = downgrades[c.at] /\ Following(c) = c.at - 1
  BY <1>1 DEF CommandInv, Shape, Migration, Following
<1>3. IsSequence(Migration(c)) /\ \A s \in ToSet(Migration(c)) : s.does # "stamp"
  <2>1. \A i \in 1..3 : IsSequence(upgrades[i]) /\ \A s \in ToSet(upgrades[i]) : s.does # "stamp"
    BY UpgradeFacts
  <2>2. \A i \in 1..3 : IsSequence(downgrades[i]) /\ \A s \in ToSet(downgrades[i]) : s.does # "stamp"
    BY DowngradeFacts
  <2> QED BY <1>2, <2>1, <2>2
<1>4. Len(Migration(c)) \in Nat /\ DOMAIN Migration(c) = 1..Len(Migration(c))
  BY <1>3, LenProperties DEF IsSequence
<1> QED BY <1>2, <1>3, <1>4

\* Nothing is executed before the first statement, and one more after each.
LEMMA ExecutedStep ==
    ASSUME NEW c, NEW r, CommandInv(c, r), c.at # c.target
    PROVE  /\ c.next <= 1 => Executed(c) = {}
           /\ c.next > Len(Migration(c)) => Executed(c) = Objects(Migration(c))
           /\ \A made, dropped, locks :
                 LET d == After(c, made, dropped, locks) IN
                 /\ c.next = 0 => Executed(d) = {}
                 /\ c.next \in DOMAIN Migration(c) =>
                       Executed(d) = Executed(c) \cup {Migration(c)[c.next].object}
<1> DEFINE M == Migration(c)
<1>1. Len(M) \in Nat /\ DOMAIN M = 1..Len(M) /\ c.next \in Nat
  BY InMigration DEF CommandInv, Shape
<1> HIDE DEF M
<1>2. Executed(c) = {M[i].object : i \in {j \in 1..Len(M) : j < c.next}}
  BY <1>1 DEF Executed, M
<1>3. c.next <= 1 => Executed(c) = {}
  BY <1>1, <1>2
<1>4. ASSUME NEW made, NEW dropped, NEW locks
      PROVE  LET d == After(c, made, dropped, locks) IN
             /\ c.next = 0 => Executed(d) = {}
             /\ c.next \in DOMAIN M => Executed(d) = Executed(c) \cup {M[c.next].object}
  <2> DEFINE d == After(c, made, dropped, locks)
  <2>1. d.next = c.next + 1 /\ Migration(d) = M
    BY AfterFields DEF CommandInv, M
  <2> HIDE DEF d
  <2>2. Executed(d) = {M[i].object : i \in {j \in 1..Len(M) : j < c.next + 1}}
    BY <1>1, <2>1 DEF Executed
  <2>3. c.next = 0 => Executed(d) = {}
    BY <1>1, <2>2
  <2>4. ASSUME c.next \in DOMAIN M
        PROVE  Executed(d) = Executed(c) \cup {M[c.next].object}
    <3>1. {j \in 1..Len(M) : j < c.next + 1} = {j \in 1..Len(M) : j < c.next} \cup {c.next}
      BY <1>1, <2>4
    <3> QED BY <1>2, <2>2, <3>1
  <2> QED BY <2>3, <2>4 DEF d
<1>5. ASSUME c.next > Len(M)
      PROVE  Executed(c) = Objects(M)
  <2>1. {j \in 1..Len(M) : j < c.next} = 1..Len(M)
    BY <1>1, <1>5
  <2>2. Executed(c) = {M[i].object : i \in 1..Len(M)}
    BY <1>2, <2>1
  <2>3. ToSet(M) = {M[i] : i \in 1..Len(M)}
    BY <1>1 DEF ToSet
  <2> QED BY <2>2, <2>3 DEF Objects
<1> QED BY <1>3, <1>4, <1>5 DEF M

-----------------------------------------------------------------------------
\* The steps of a command keep what is said of it.

\* It makes the table of alembic.
LEMMA VersionTableStep ==
    ASSUME NEW c, NEW r, CommandInv(c, r), c.next = 0, NEW locks
    PROVE  CommandInv(After(c, {alembic_version}, {}, locks), r)
<1> DEFINE d == After(c, {alembic_version}, {}, locks)
<1>1. /\ DOMAIN d = DOMAIN c
      /\ d.at = c.at /\ d.target = c.target /\ d.next = 1
      /\ d.made = c.made \cup {alembic_version} /\ d.dropped = c.dropped \ {alembic_version}
      /\ d.stamped = c.stamped /\ d.locks = c.locks \cup locks /\ d.found = c.found
  BY AfterFields DEF CommandInv
<1>2. c.at # c.target => Executed(d) = {}
  BY ExecutedStep
<1> HIDE DEF d
<1>3. Shape(d) /\ Stamped(d, r)
  BY <1>1 DEF CommandInv, Shape, Stamped, All
<1>4. Idle(d)
  BY <1>1 DEF CommandInv, Idle, Kept
<1>5. Upgrading(d)
  BY <1>1, <1>2 DEF CommandInv, Upgrading, Kept
<1>6. Downgrading(d)
  BY <1>1, <1>2 DEF CommandInv, Downgrading, Kept
<1> QED BY <1>3, <1>4, <1>5, <1>6 DEF d, CommandInv

\* It executes a statement of an upgrade.
LEMMA UpgradeStep ==
    ASSUME NEW c, NEW r, CommandInv(c, r), c.at < c.target,
           c.next \in DOMAIN Migration(c), NEW o, o = Migration(c)[c.next].object,
           NEW made, made = {o} \/ (made = {} /\ o \in Kept), NEW locks
    PROVE  CommandInv(After(c, made, {}, locks), r)
<1> DEFINE d == After(c, made, {}, locks)
<1>0. c.at # c.target /\ c.found.revision < c.target /\ c.at + 1 \in 1..3
      /\ Migration(c) = upgrades[c.at + 1]
  BY InMigration DEF CommandInv, Shape
<1>1. /\ DOMAIN d = DOMAIN c
      /\ d.at = c.at /\ d.target = c.target /\ d.next = c.next + 1
      /\ d.made = c.made \cup made /\ d.dropped = {}
      /\ d.stamped = c.stamped /\ d.locks = c.locks \cup locks /\ d.found = c.found
  <2>1. c.dropped = {}
    BY <1>0 DEF CommandInv, Upgrading
  <2> QED BY <2>1, AfterFields DEF CommandInv
<1>2. Executed(d) = Executed(c) \cup {o}
  BY <1>0, ExecutedStep
<1>3. made \subseteq Upto(c.at + 1) /\ made \subseteq All
  <2>1. Migration(c)[c.next] \in ToSet(upgrades[c.at + 1])
    BY <1>0 DEF ToSet
  <2> DEFINE i == c.at + 1
  <2>2. i \in 1..3 /\ i \in 0..3
    BY <1>0
  <2> HIDE DEF i
  <2>3. o \in Upto(i) /\ Upto(i) \subseteq All
    BY <2>1, <2>2, UpgradeFacts DEF i
  <2> QED BY <2>3 DEF i
<1> HIDE DEF d
<1>4. Shape(d) /\ Stamped(d, r)
  BY <1>0, <1>1, <1>3 DEF CommandInv, Shape, Stamped
<1>5. Idle(d) /\ Downgrading(d)
  BY <1>0, <1>1 DEF CommandInv, Shape, Idle, Downgrading
<1>6. Upgrading(d)
  <2>1. /\ Upto(c.at) \ (Upto(c.found.revision) \cup Kept) \subseteq c.made
        /\ c.made \ Kept \subseteq Upto(c.at + 1)
        /\ Executed(c) \ Kept \subseteq c.made
        /\ c.found.revision <= c.at /\ c.at <= c.target
    BY <1>0 DEF CommandInv, Upgrading
  <2>2. d.made \ Kept \subseteq Upto(c.at + 1)
    BY <1>1, <1>3, <2>1
  <2>3. Executed(d) \ Kept \subseteq d.made
    BY <1>1, <1>2, <2>1
  <2> QED BY <1>0, <1>1, <2>1, <2>2, <2>3 DEF Upgrading
<1> QED BY <1>4, <1>5, <1>6 DEF d, CommandInv

\* It executes a statement of a downgrade.
LEMMA DowngradeStep ==
    ASSUME NEW c, NEW r, CommandInv(c, r), c.target < c.at,
           c.next \in DOMAIN Migration(c), NEW o, o = Migration(c)[c.next].object,
           NEW objects \in SUBSET All, o \in objects, NEW locks
    PROVE  CommandInv(After(c, {}, Cascade(o, objects), locks), r)
<1> DEFINE K == Cascade(o, objects)
           d == After(c, {}, K, locks)
<1>0. /\ c.at # c.target /\ c.target < c.found.revision /\ c.at \in 1..3 /\ c.target \in 0..3
      /\ Migration(c) = downgrades[c.at]
  BY InMigration DEF CommandInv, Shape
<1>1. /\ DOMAIN d = DOMAIN c
      /\ d.at = c.at /\ d.target = c.target /\ d.next = c.next + 1
      /\ d.made = c.made \ K /\ d.dropped = c.dropped \cup K
      /\ d.stamped = c.stamped /\ d.locks = c.locks \cup locks /\ d.found = c.found
  BY AfterFields DEF CommandInv
<1>2. Executed(d) = Executed(c) \cup {o}
  BY <1>0, ExecutedStep
<1>3. o # ix_source_record_tenant_id
  BY Apart
<1>4. c.at # 1 => o \in K /\ K \cap Upto(c.at - 1) = {}
  <2>1. Migration(c)[c.next] \in ToSet(downgrades[c.at])
    BY <1>0 DEF ToSet
  <2>2. c.at # 1 => c.at \in {2, 3}
    BY <1>0
  <2> QED BY <2>1, <2>2, CascadeStays
<1> HIDE DEF d, K
<1>5. Shape(d) /\ Stamped(d, r)
  BY <1>0, <1>1 DEF CommandInv, Shape, Stamped
<1>6. Idle(d) /\ Upgrading(d)
  BY <1>0, <1>1 DEF CommandInv, Shape, Idle, Upgrading
<1>7. Downgrading(d)
  <2>0. c.target <= c.at /\ c.at <= c.found.revision /\ c.at > 0 /\ d.made \subseteq Kept
    BY <1>0, <1>1 DEF CommandInv, Downgrading
  <2>1. CASE c.at = 1
    <3>1. c.target = 0
      BY <1>0, <2>1
    <3>2. ix_source_record_tenant_id \notin Executed(c)
      BY <1>0, <2>1, <3>1 DEF CommandInv, Downgrading
    <3> QED BY <1>1, <1>2, <1>3, <2>0, <2>1, <3>1, <3>2 DEF Downgrading
  <2>2. CASE c.at # 1
    <3>1. /\ Upto(c.found.revision) \ (Upto(c.at) \cup Kept) \subseteq c.dropped
          /\ (c.dropped \ Kept) \cap Upto(c.at - 1) = {}
          /\ Executed(c) \ Kept \subseteq c.dropped
      BY <1>0, <2>2 DEF CommandInv, Downgrading
    <3>2. /\ Upto(c.found.revision) \ (Upto(c.at) \cup Kept) \subseteq d.dropped
          /\ (d.dropped \ Kept) \cap Upto(c.at - 1) = {}
          /\ Executed(d) \ Kept \subseteq d.dropped
      BY <1>1, <1>2, <1>4, <2>2, <3>1
    <3> QED BY <1>0, <1>1, <2>0, <2>2, <3>2 DEF Downgrading
  <2> QED BY <2>1, <2>2
<1> QED BY <1>5, <1>6, <1>7 DEF d, K, CommandInv

\* It finishes a migration.
LEMMA AdvanceStep ==
    ASSUME NEW c, NEW r, CommandInv(c, r), c.at # c.target,
           c.next > Len(Migration(c)), r = c.found.revision,
           NEW locks, "alembic_version" \in locks
    PROVE  CommandInv(Further(c, locks), r)
<1> DEFINE d == Further(c, locks)
           f == c.found.revision
<1>0. /\ c.at \in 0..3 /\ c.target \in 0..3 /\ f \in 0..3
  BY DEF CommandInv, Shape
<1>1. /\ DOMAIN d = DOMAIN c
      /\ d.at = Following(c) /\ d.target = c.target /\ d.next = 1
      /\ d.made = c.made /\ d.dropped = c.dropped /\ d.stamped = TRUE
      /\ d.locks = c.locks \cup locks /\ d.found = c.found
  BY FurtherFields DEF CommandInv
<1>2. Executed(c) = Objects(Migration(c))
  BY ExecutedStep
<1>3. d.at # d.target => Executed(d) = {}
  <2> SUFFICES ASSUME d.at # d.target PROVE Executed(d) = {}
    OBVIOUS
  <2>1. \E i \in 1..3 : Migration(d) = upgrades[i] \/ Migration(d) = downgrades[i]
    <3>1. d.at \in 0..3 /\ d.target \in 0..3
      BY <1>0, <1>1, InMigration
    <3>2. CASE d.at < d.target
      BY <3>1, <3>2 DEF Migration
    <3>3. CASE d.target < d.at
      BY <3>1, <3>3 DEF Migration
    <3> QED BY <3>1, <3>2, <3>3
  <2>2. IsSequence(Migration(d))
    <3>1. \A i \in 1..3 : IsSequence(upgrades[i]) /\ IsSequence(downgrades[i])
      BY UpgradeFacts, DowngradeFacts
    <3> QED BY <2>1, <3>1
  <2>3. DOMAIN Migration(d) = 1..Len(Migration(d)) /\ Len(Migration(d)) \in Nat
    BY <2>2, LenProperties DEF IsSequence
  <2>4. \A j \in DOMAIN Migration(d) : ~(j < d.next)
    BY <1>1, <2>3
  <2> QED BY <2>4 DEF Executed
<1> HIDE DEF d
<1>4. CASE c.at < c.target
  <2>1. /\ f < c.target /\ c.at + 1 \in 1..3 /\ d.at = c.at + 1
        /\ Executed(c) = Objects(upgrades[c.at + 1])
    BY <1>0, <1>1, <1>2, <1>4, InMigration
  <2>2. /\ f <= c.at /\ c.dropped = {}
        /\ Upto(c.at) \ (Upto(f) \cup Kept) \subseteq c.made
        /\ c.made \ Kept \subseteq Upto(c.at + 1)
        /\ Executed(c) \ Kept \subseteq c.made
    BY <1>4, <2>1 DEF CommandInv, Upgrading
  <2>3. Upto(c.at + 1) = Upto(c.at) \cup Executed(c)
    <3> DEFINE i == c.at + 1
    <3>1. i \in 1..3 /\ i - 1 = c.at
      BY <1>0, <2>1
    <3> HIDE DEF i
    <3>2. Upto(i) = Upto(i - 1) \cup Objects(upgrades[i])
      BY <3>1, UpgradeFacts
    <3> QED BY <2>1, <3>1, <3>2 DEF i
  <2>4. Upgrading(d)
    <3>1. Upto(d.at) \ (Upto(f) \cup Kept) \subseteq d.made
      BY <1>1, <2>1, <2>2, <2>3
    <3>2. d.made \ Kept \subseteq Upto(d.at)
      BY <1>1, <2>1, <2>2
    <3>3. d.at # d.target => Upto(d.at) \subseteq Upto(d.at + 1)
      <4> DEFINE i == d.at
                 j == d.at + 1
      <4>1. d.at # d.target => i \in 0..3 /\ j \in 0..3 /\ i <= j
        BY <1>0, <1>1, <1>4, <2>1
      <4> HIDE DEF i, j
      <4>2. d.at # d.target => Upto(i) \subseteq Upto(j)
        BY <4>1, UptoGrows
      <4> QED BY <4>2 DEF i, j
    <3>4. f <= d.at /\ d.at <= d.target
      BY <1>0, <1>1, <1>4, <2>1, <2>2
    <3> QED BY <1>1, <1>3, <2>2, <3>1, <3>2, <3>3, <3>4 DEF Upgrading
  <2>5. Shape(d) /\ Stamped(d, r)
    <3>1. d.stamped /\ "alembic_version" \in d.locks /\ d.stamped \in BOOLEAN
      BY <1>1
    <3>2. d.at # f /\ d.found.revision = f
      BY <1>0, <1>1, <2>1, <2>2
    <3>3. Stamped(d, r)
      BY <3>1, <3>2 DEF Stamped
    <3>4. d.at \in 0..3 /\ d.next <= 1 /\ d.next \in Nat
      BY <1>0, <1>1, <2>1
    <3>5. Shape(d)
      BY <1>1, <3>1, <3>4 DEF CommandInv, Shape
    <3> QED BY <3>3, <3>5
  <2>6. Idle(d) /\ Downgrading(d)
    BY <1>0, <1>1, <2>1 DEF Idle, Downgrading
  <2> QED BY <2>4, <2>5, <2>6 DEF CommandInv, d
<1>5. CASE c.target < c.at
  <2>1. /\ c.target < f /\ c.at \in 1..3 /\ d.at = c.at - 1
        /\ Executed(c) = Objects(downgrades[c.at])
    BY <1>0, <1>1, <1>2, <1>5, InMigration
  <2>2. /\ c.at <= f /\ c.made \subseteq Kept
        /\ IF c.at = 1 /\ c.target = 0
           THEN ix_source_record_tenant_id \notin Executed(c)
           ELSE /\ Upto(f) \ (Upto(c.at) \cup Kept) \subseteq c.dropped
                /\ (c.dropped \ Kept) \cap Upto(c.at - 1) = {}
                /\ Executed(c) \ Kept \subseteq c.dropped
    BY <1>5, <2>1 DEF CommandInv, Downgrading
  <2>3. c.at # 1
    <3> SUFFICES ASSUME c.at = 1 PROVE FALSE
      OBVIOUS
    <3>1. Drop(ix_source_record_tenant_id).object = ix_source_record_tenant_id
      BY DEF Drop, Statement
    <3>2. ix_source_record_tenant_id \in Objects(downgrades[1])
      BY <3>1, DowngradeFacts DEF Objects
    <3>3. c.target = 0
      BY <1>0, <1>5
    <3> QED BY <2>1, <2>2, <3>2, <3>3
  <2>4. c.at \in {2, 3} /\ d.at \in 1..2
    BY <2>1, <2>3
  <2>5. Upto(c.at) \ Kept \subseteq Upto(c.at - 1) \cup Executed(c)
    BY <2>1, <2>4, DowngradeFacts
  <2>6. Downgrading(d)
    <3>1. /\ Upto(f) \ (Upto(d.at) \cup Kept) \subseteq d.dropped
          /\ (d.dropped \ Kept) \cap Upto(d.at) = {}
      BY <1>1, <2>1, <2>2, <2>3, <2>5
    <3>2. Upto(d.at - 1) \subseteq Upto(d.at)
      <4> DEFINE i == d.at - 1
                 j == d.at
      <4>1. i \in 0..3 /\ j \in 0..3 /\ i <= j
        BY <2>4
      <4> HIDE DEF i, j
      <4>2. Upto(i) \subseteq Upto(j)
        BY <4>1, UptoGrows
      <4> QED BY <4>2 DEF i, j
    <3>3. (d.dropped \ Kept) \cap Upto(IF d.at = d.target THEN d.at ELSE d.at - 1) = {}
      BY <3>1, <3>2
    <3>4. d.target <= d.at /\ d.at <= f /\ d.at > 0 /\ d.made \subseteq Kept
      BY <1>0, <1>1, <1>5, <2>1, <2>2, <2>4
    <3>5. d.at # d.target => Executed(d) \ Kept \subseteq d.dropped
      BY <1>3
    <3>6. d.at = 1 /\ d.target = 0 => ix_source_record_tenant_id \notin Executed(d)
      BY <1>3
    <3>7. d.found.revision = f
      BY <1>1
    <3> HIDE DEF f
    <3> QED BY <3>1, <3>3, <3>4, <3>5, <3>6, <3>7 DEF Downgrading
  <2>7. Shape(d) /\ Stamped(d, r)
    <3>1. d.stamped /\ "alembic_version" \in d.locks /\ d.stamped \in BOOLEAN
      BY <1>1
    <3>2. d.at # f /\ d.found.revision = f
      BY <1>0, <1>1, <2>1, <2>2
    <3>3. Stamped(d, r)
      BY <3>1, <3>2 DEF Stamped
    <3>4. d.at \in 0..3 /\ d.next <= 1 /\ d.next \in Nat
      BY <1>0, <1>1, <2>4
    <3>5. Shape(d)
      BY <1>1, <3>1, <3>4 DEF CommandInv, Shape
    <3> QED BY <3>3, <3>5
  <2>8. Idle(d) /\ Upgrading(d)
    BY <1>0, <1>1, <2>1 DEF Idle, Upgrading
  <2> QED BY <2>6, <2>7, <2>8 DEF CommandInv, d
<1> QED BY <1>0, <1>4, <1>5 DEF d

\* What a finished command commits.
LEMMA CommitStep ==
    ASSUME MigrationsInv, NEW op \in Operators, command[op] # None, Finished(command[op])
    PROVE  /\ RevisionSeen(command[op]) \in 0..3
           /\ View(command[op]) \subseteq All
           /\ View(command[op]) \ Kept = Upto(RevisionSeen(command[op])) \ Kept
           /\ ~command[op].stamped => RevisionSeen(command[op]) = revision
<1> DEFINE c == command[op]
           f == c.found.revision
<1>1. CommandInv(c, revision) /\ c.at = c.target
  BY DEF MigrationsInv, Finished
<1>2. c.at \in 0..3 /\ f \in 0..3 /\ c.made \subseteq All
  BY <1>1 DEF CommandInv, Shape
<1>3. revision \in 0..3 /\ schema \subseteq All /\ schema \ Kept = Upto(revision) \ Kept
  BY DEF MigrationsInv
<1> HIDE DEF c
<1>4. View(c) \subseteq All
  BY <1>2, <1>3 DEF View
<1>5. CASE c.target = f
  <2>1. c.at = f /\ c.made \subseteq Kept /\ c.dropped = {} /\ ~c.stamped
    BY <1>1, <1>5 DEF CommandInv, Idle, Stamped
  <2>2. RevisionSeen(c) = revision
    BY <2>1 DEF RevisionSeen
  <2> QED BY <1>3, <1>4, <2>1, <2>2 DEF View, c
<1>6. CASE f < c.target
  <2>1. /\ c.stamped /\ revision = f /\ c.at > f
    BY <1>1, <1>2, <1>6 DEF CommandInv, Stamped
  <2>2. /\ c.dropped = {} /\ Upto(c.at) \ (Upto(f) \cup Kept) \subseteq c.made
        /\ c.made \ Kept \subseteq Upto(c.at)
    BY <1>1, <1>6 DEF CommandInv, Upgrading
  <2>3. Upto(f) \subseteq Upto(c.at)
    BY <1>2, <2>1, UptoGrows
  <2>4. RevisionSeen(c) = c.at
    BY <2>1 DEF RevisionSeen
  <2> QED BY <1>2, <1>3, <1>4, <2>1, <2>2, <2>3, <2>4 DEF View, c
<1>7. CASE c.target < f
  <2>1. /\ c.stamped /\ revision = f
    BY <1>1, <1>2, <1>7 DEF CommandInv, Stamped
  <2>2. /\ c.at > 0 /\ c.at <= f /\ c.made \subseteq Kept
        /\ Upto(f) \ (Upto(c.at) \cup Kept) \subseteq c.dropped
        /\ (c.dropped \ Kept) \cap Upto(c.at) = {}
    BY <1>1, <1>2, <1>7 DEF CommandInv, Downgrading
  <2>3. Upto(c.at) \subseteq Upto(f)
    BY <1>2, <2>2, UptoGrows
  <2>4. RevisionSeen(c) = c.at
    BY <2>1 DEF RevisionSeen
  <2> QED BY <1>2, <1>3, <1>4, <2>1, <2>2, <2>3, <2>4 DEF View, c
<1> QED BY <1>1, <1>2, <1>5, <1>6, <1>7 DEF c

-----------------------------------------------------------------------------
\* The steps of the system.

\* A step of one command that commits nothing.
LEMMA OneCommand ==
    ASSUME MigrationsInv, NEW op \in Operators, NEW d,
           command' = [command EXCEPT ![op] = d], UNCHANGED <<schema, revision>>,
           d # None => CommandInv(d, revision),
           d # None /\ d.stamped =>
              \A q \in Operators \ {op} : command[q] # None => ~command[q].stamped
    PROVE  MigrationsInv'
<1>1. command'[op] = d /\ \A q \in Operators \ {op} : command'[q] = command[q]
  BY DEF MigrationsInv
<1>2. command' = [q \in Operators |-> command'[q]]
  BY DEF MigrationsInv
<1>3. \A q \in Operators : command'[q] # None => CommandInv(command'[q], revision)
  BY <1>1 DEF MigrationsInv
<1>4. \A p, q \in Operators :
         /\ command'[p] # None /\ command'[p].stamped
         /\ command'[q] # None /\ command'[q].stamped
         => p = q
  BY <1>1 DEF MigrationsInv
<1> QED BY <1>2, <1>3, <1>4 DEF MigrationsInv

\* A command that starts.
LEMMA StartKeeps ==
    ASSUME MigrationsInv, NEW op \in Operators, NEW target \in 0..head, Start(op, target)
    PROVE  MigrationsInv'
<1> DEFINE d == [at |-> revision, target |-> target,
                 next |-> IF alembic_version \in schema THEN 1 ELSE 0,
                 made |-> {}, dropped |-> {}, stamped |-> FALSE, locks |-> {},
                 found |-> [schema |-> schema, revision |-> revision]]
<1>1. /\ DOMAIN d = {"at", "target", "next", "made", "dropped", "stamped", "locks", "found"}
      /\ d.at = revision /\ d.target = target /\ d.next \in {0, 1}
      /\ d.made = {} /\ d.dropped = {} /\ ~d.stamped /\ d.stamped \in BOOLEAN
      /\ d.found.revision = revision
  OBVIOUS
<1>2. command' = [command EXCEPT ![op] = d] /\ UNCHANGED <<schema, revision>>
  BY DEF Start
<1>3. target \in 0..3 /\ revision \in 0..3
  BY DEF MigrationsInv, head, upgrades
<1> HIDE DEF d
<1>4. Shape(d) /\ Idle(d)
  BY <1>1, <1>3 DEF Shape, Idle
<1>5. Stamped(d, revision)
  BY <1>1 DEF Stamped
<1>6. d.at # d.target => Executed(d) = {}
  <2> SUFFICES ASSUME d.at # d.target PROVE Executed(d) = {}
    OBVIOUS
  <2>1. \E i \in 1..3 : Migration(d) = upgrades[i] \/ Migration(d) = downgrades[i]
    <3>1. CASE d.at < d.target
      BY <1>1, <1>3, <3>1 DEF Migration
    <3>2. CASE d.target < d.at
      BY <1>1, <1>3, <3>2 DEF Migration
    <3> QED BY <1>1, <1>3, <3>1, <3>2
  <2>2. IsSequence(Migration(d))
    <3>1. \A i \in 1..3 : IsSequence(upgrades[i]) /\ IsSequence(downgrades[i])
      BY UpgradeFacts, DowngradeFacts
    <3> QED BY <2>1, <3>1
  <2>3. DOMAIN Migration(d) = 1..Len(Migration(d)) /\ Len(Migration(d)) \in Nat
    BY <2>2, LenProperties DEF IsSequence
  <2>4. \A j \in DOMAIN Migration(d) : ~(j < d.next)
    BY <1>1, <2>3
  <2> QED BY <2>4 DEF Executed
<1>7. Upgrading(d)
  BY <1>1, <1>3, <1>6 DEF Upgrading
<1>8. Downgrading(d)
  BY <1>1, <1>3, <1>6 DEF Downgrading
<1>9. CommandInv(d, revision)
  BY <1>4, <1>5, <1>7, <1>8 DEF CommandInv
<1> QED BY <1>1, <1>2, <1>9, OneCommand

\* A statement of a migration that succeeds.
LEMMA MigrateKeeps ==
    ASSUME MigrationsInv, NEW op \in Operators, Migrate(op)
    PROVE  MigrationsInv'
<1> DEFINE c == command[op]
           s == NextStatement(c)
<1>1. CommandInv(c, revision) /\ c # None /\ ~Finished(c)
  BY DEF MigrationsInv, Migrate, Free
<1>2. View(c) \subseteq All
  BY <1>1 DEF MigrationsInv, View, CommandInv, Shape
<1>3. s.does # "stamp"
  BY DEF Migrate
<1>4. ASSUME NEW made, NEW dropped, Proceed(op, made, dropped),
             CommandInv(After(c, made, dropped, Locks(s)), revision)
      PROVE  MigrationsInv'
  <2> DEFINE d == After(c, made, dropped, Locks(s))
  <2>1. command' = [command EXCEPT ![op] = d] /\ UNCHANGED <<schema, revision>>
    BY <1>4 DEF Proceed, After
  <2>2. d.stamped = c.stamped
    BY <1>1, AfterFields DEF CommandInv
  <2> HIDE DEF d
  <2>3. d.stamped => \A q \in Operators \ {op} : command[q] # None => ~command[q].stamped
    BY <1>1, <2>2 DEF MigrationsInv
  <2> QED BY <1>4, <2>1, <2>3, OneCommand DEF d
<1>5. ASSUME Fail(op)
      PROVE  MigrationsInv'
  BY <1>5, OneCommand DEF Fail
<1>6. CASE c.next = 0
  <2>1. s = Create(alembic_version)
    BY <1>6 DEF NextStatement
  <2>2. s.does = "create" /\ s.object = alembic_version
    BY <2>1 DEF Create, Statement
  <2>3. Fail(op) \/ Proceed(op, {alembic_version}, {})
    BY <2>2 DEF Migrate
  <2> QED BY <1>1, <1>4, <1>5, <1>6, <2>3, VersionTableStep
<1>7. CASE c.next # 0
  <2>0. c.next \in Nat /\ c.next > 0 /\ c.at # c.target
    BY <1>1, <1>7 DEF CommandInv, Shape, Finished
  <2>1. c.next \in DOMAIN Migration(c) /\ s = Migration(c)[c.next]
    <3>1. c.next <= Len(Migration(c))
      BY <1>3, <1>7 DEF NextStatement, Stamp
    <3> QED BY <1>1, <1>7, <2>0, <3>1, InMigration DEF NextStatement
  <2>2. s \in ToSet(Migration(c))
    BY <2>1 DEF ToSet
  <2> HIDE DEF c, s
  <2>3. CASE c.at < c.target
    <3> DEFINE i == c.at + 1
    <3>1. i \in 1..3 /\ s \in ToSet(upgrades[i])
      BY <1>1, <2>0, <2>2, <2>3, InMigration DEF CommandInv, Shape
    <3> HIDE DEF i
    <3>2. s.does \in {"create", "create if missing"} /\ (s.does = "create if missing" => s.object \in Kept)
      BY <3>1, UpgradeFacts
    <3>3. \/ Fail(op)
          \/ Proceed(op, {s.object}, {})
          \/ Proceed(op, {}, {}) /\ s.object \in Kept
      BY <3>2 DEF Migrate, c, s
    <3>4. \A made : made = {s.object} \/ (made = {} /\ s.object \in Kept) =>
             CommandInv(After(c, made, {}, Locks(s)), revision)
      BY <1>1, <2>1, <2>3, UpgradeStep
    <3>5. CASE Fail(op)
      BY <1>5, <3>5
    <3>6. CASE Proceed(op, {s.object}, {})
      BY <1>4, <3>4, <3>6, Zenon
    <3>7. CASE Proceed(op, {}, {}) /\ s.object \in Kept
      BY <1>4, <3>4, <3>7
    <3> QED BY <3>3, <3>5, <3>6, <3>7
  <2>4. CASE c.target < c.at
    <3>1. c.at \in 1..3 /\ s \in ToSet(downgrades[c.at])
      BY <1>1, <2>0, <2>2, <2>4, InMigration DEF CommandInv, Shape
    <3>2. s.does = "drop"
      BY <3>1, DowngradeFacts
    <3>3. \/ Fail(op)
          \/ Proceed(op, {}, Cascade(s.object, View(c))) /\ s.object \in View(c)
      BY <3>2 DEF Migrate, Applicable, c, s
    <3>4. s.object \in View(c) =>
             CommandInv(After(c, {}, Cascade(s.object, View(c)), Locks(s)), revision)
      BY <1>1, <1>2, <2>1, <2>4, DowngradeStep
    <3> QED BY <1>4, <1>5, <3>3, <3>4
  <2> QED BY <1>1, <2>0, <2>3, <2>4 DEF CommandInv, Shape
<1> QED BY <1>6, <1>7

\* The end of a migration.
LEMMA UpdateVersionKeeps ==
    ASSUME MigrationsInv, NEW op \in Operators, UpdateVersion(op)
    PROVE  MigrationsInv'
<1> DEFINE c == command[op]
           d == Further(c, Locks(NextStatement(c)))
<1>1. CASE ~Advance(op)
  <2>1. Fail(op)
    BY <1>1 DEF UpdateVersion
  <2> QED BY <2>1, OneCommand DEF Fail
<1>2. CASE Advance(op) /\ ~Fail(op)
  <2>1. /\ CommandInv(c, revision) /\ c # None /\ ~Finished(c) /\ ~Waits(op)
        /\ NextStatement(c).does = "stamp" /\ RevisionSeen(c) = c.at
    BY <1>2 DEF MigrationsInv, UpdateVersion, Free
  <2>2. Locks(NextStatement(c)) = {"alembic_version"}
    BY <2>1 DEF Locks
  <2>3. \A q \in Operators \ {op} : command[q] # None => ~command[q].stamped
    <3>1. \A q \in Operators \ {op} :
             command[q] # None => "alembic_version" \notin command[q].locks
      BY <2>1, <2>2 DEF Waits
    <3> QED BY <3>1 DEF MigrationsInv, CommandInv, Stamped
  <2>4. c.next \in Nat /\ c.next > 0 /\ c.at # c.target
    <3>1. Create(alembic_version).does = "create"
      BY DEF Create, Statement
    <3>2. c.next # 0
      BY <2>1, <3>1 DEF NextStatement
    <3> QED BY <2>1, <3>2 DEF CommandInv, Shape, Finished
  <2>5. c.next > Len(Migration(c))
    <3> SUFFICES ASSUME ~(c.next > Len(Migration(c))) PROVE FALSE
      OBVIOUS
    <3>1. /\ Len(Migration(c)) \in Nat /\ DOMAIN Migration(c) = 1..Len(Migration(c))
          /\ \A s \in ToSet(Migration(c)) : s.does # "stamp"
      BY <2>1, <2>4, InMigration
    <3>2. c.next <= Len(Migration(c)) /\ c.next \in DOMAIN Migration(c)
      BY <2>4, <3>1
    <3>3. NextStatement(c) = Migration(c)[c.next]
      BY <2>4, <3>2 DEF NextStatement
    <3> QED BY <2>1, <3>1, <3>2, <3>3 DEF ToSet
  <2>6. revision = c.found.revision
    BY <2>1 DEF CommandInv, Stamped, RevisionSeen
  <2> HIDE DEF c
  <2>7. CommandInv(d, revision)
    BY <2>1, <2>2, <2>4, <2>5, <2>6, AdvanceStep
  <2>8. command' = [command EXCEPT ![op] = d] /\ UNCHANGED <<schema, revision>>
    BY <1>2 DEF Advance, Further, c
  <2> QED BY <2>3, <2>7, <2>8, OneCommand
<1>3. CASE Advance(op) /\ Fail(op)
  BY <1>3, OneCommand DEF Fail
<1> QED BY <1>1, <1>2, <1>3

\* The commit of a command.
LEMMA CommitKeeps ==
    ASSUME MigrationsInv, NEW op \in Operators, Commit(op)
    PROVE  MigrationsInv'
<1>1. /\ revision' \in 0..3 /\ schema' \subseteq All /\ schema' \ Kept = Upto(revision') \ Kept
      /\ ~command[op].stamped => revision' = revision
  BY CommitStep DEF Commit
<1>2. /\ command'[op] = None /\ \A q \in Operators \ {op} : command'[q] = command[q]
      /\ command' = [q \in Operators |-> command'[q]]
  BY DEF MigrationsInv, Commit
<1>3. ASSUME NEW q \in Operators, command'[q] # None
      PROVE  CommandInv(command'[q], revision')
  <2>1. q # op /\ command'[q] = command[q] /\ CommandInv(command[q], revision)
    BY <1>2, <1>3 DEF MigrationsInv
  <2>2. CASE revision' = revision
    BY <2>1, <2>2
  <2>3. CASE command[op].stamped
    <3>1. ~command[q].stamped
      <4>1. command[op] # None /\ command[q] # None
        BY <1>2, <1>3, <2>1 DEF Commit
      <4>2. \A p \in Operators :
               /\ command[p] # None /\ command[p].stamped
               /\ command[op] # None /\ command[op].stamped
               => p = op
        BY DEF MigrationsInv
      <4> QED BY <2>1, <2>3, <4>1, <4>2
    <3> QED BY <2>1, <3>1 DEF CommandInv, Stamped
  <2> QED BY <1>1, <2>2, <2>3
<1>4. \A p, q \in Operators :
         /\ command'[p] # None /\ command'[p].stamped
         /\ command'[q] # None /\ command'[q].stamped
         => p = q
  BY <1>2 DEF MigrationsInv
<1> QED BY <1>1, <1>2, <1>3, <1>4 DEF MigrationsInv

\* Every step.
LEMMA MigrationsNext ==
    ASSUME MigrationsInv, [Next]_vars
    PROVE  MigrationsInv'
<1>1. ASSUME NEW op \in Operators, NEW target \in 0..head, Start(op, target)
      PROVE  MigrationsInv'
  BY <1>1, StartKeeps DEF Start
<1>2. ASSUME NEW op \in Operators, Migrate(op)
      PROVE  MigrationsInv'
  BY <1>2, MigrateKeeps
<1>3. ASSUME NEW op \in Operators, UpdateVersion(op)
      PROVE  MigrationsInv'
  BY <1>3, UpdateVersionKeeps
<1>4. ASSUME NEW op \in Operators, Commit(op)
      PROVE  MigrationsInv'
  BY <1>4, CommitKeeps
<1>5. ASSUME NEW op \in Operators, Abort(op)
      PROVE  MigrationsInv'
  BY <1>5, OneCommand DEF Abort
<1>6. CASE UNCHANGED vars
  BY <1>6 DEF vars, MigrationsInv
<1> QED BY <1>1, <1>2, <1>3, <1>4, <1>5, <1>6 DEF Next

\* The invariant holds at first.
LEMMA MigrationsInit == Init => MigrationsInv
<1> SUFFICES ASSUME Init PROVE MigrationsInv
  OBVIOUS
<1>1. schema = {} /\ revision = 0 /\ Upto(0) = {}
  BY UptoFacts DEF Init
<1>2. \A op \in Operators : command[op] = None
  BY DEF Init
<1>3. command = [op \in Operators |-> command[op]]
  BY DEF Init
<1> QED BY <1>1, <1>2, <1>3 DEF MigrationsInv

\* The committed schema is always the one that the committed revision stands for,
\* however many operators run upgrades and downgrades at once, wherever their
\* commands start, fail or are broken off (alembic/env.py: one transaction each).
THEOREM SchemaAsRevision == Spec => []SchemaMatchesRevision
<1>1. MigrationsInv => SchemaMatchesRevision
  <2> SUFFICES ASSUME MigrationsInv PROVE SchemaMatchesRevision
    OBVIOUS
  <2>1. schema \ Kept = Upto(revision) \ Kept
    BY DEF MigrationsInv
  <2>2. Upto(revision) \subseteq Upto(3)
    BY UptoGrows DEF MigrationsInv
  <2> QED BY <2>1, <2>2, Apart DEF SchemaMatchesRevision, Kept
<1>2. MigrationsInv /\ [Next]_vars => MigrationsInv'
  BY MigrationsNext
<1> QED BY <1>1, <1>2, MigrationsInit, PTL DEF Spec

-----------------------------------------------------------------------------
(***************************************************************************)
(* Sequences: what the lists of statements are made of.                    *)
(***************************************************************************)

\* The sequence u is s, of length m, followed by t, of length n.
Joined(u, s, t, m, n) ==
    /\ IsSequence(u) /\ Len(u) = m + n
    /\ \A i \in 1..m : u[i] = s[i]
    /\ \A i \in 1..n : u[m + i] = t[i]

\* The places of a concatenation.
LEMMA ConcatPlaces ==
    ASSUME NEW s, NEW t, IsSequence(s), IsSequence(t)
    PROVE  Joined(s \o t, s, t, Len(s), Len(t))
<1> DEFINE S == ToSet(s) \cup ToSet(t)
           u == s \o t
           m == Len(s)
           n == Len(t)
<1>1. s \in Seq(S) /\ t \in Seq(S)
  BY SeqMonotonic DEF IsSequence
<1> HIDE DEF S
<1>2. /\ Len(u) = m + n /\ m \in Nat /\ n \in Nat
      /\ \A i \in 1..m + n : u[i] = IF i <= m THEN s[i] ELSE t[i - m]
  BY <1>1, ConcatProperties, LenProperties
<1>3. IsSequence(u)
  BY ConcatMembers
<1> HIDE DEF u, m, n
<1>4. \A i \in 1..n : u[m + i] = t[i]
  <2> SUFFICES ASSUME NEW i \in 1..n PROVE u[m + i] = t[i]
    OBVIOUS
  <2>1. m + i \in 1..m + n /\ ~(m + i <= m) /\ (m + i) - m = i
    BY <1>2
  <2> QED BY <1>2, <2>1
<1>5. \A i \in 1..m : u[i] = s[i]
  BY <1>2
<1>6. Joined(u, s, t, m, n)
  BY <1>2, <1>3, <1>4, <1>5 DEF Joined
<1> QED BY <1>6 DEF u, m, n

\* The statements of 0001 that the numbers of its index lists follow.
LEMMA InitialPlaces ==
    LET u == upgrade_initial
        d == downgrade_initial IN
    /\ Len(u) = 16 /\ Len(d) = 17
    /\ u[1] = Create(source_record) /\ u[2] = Create(evidence_span)
    /\ \A k \in 1..2 : u[2 + k] = Create(Index(span_indexes[k], "evidence_span"))
    /\ u[5] = Create(commercial_assertion)
    /\ \A k \in 1..7 : u[5 + k] = Create(Index(assertion_indexes[k], "commercial_assertion"))
    /\ u[13] = Create(workflow_state) /\ u[14] = Create(ix_workflow_tenant_id)
    /\ u[15] = Create(outbox_event) /\ u[16] = Create(ix_outbox_tenant_id)
    /\ d[1] = Drop(ix_outbox_tenant_id) /\ d[2] = Drop(outbox_event)
    /\ d[3] = Drop(ix_workflow_tenant_id) /\ d[4] = Drop(workflow_state)
    /\ \A k \in 1..7 : d[4 + k] = Drop(Index(assertion_indexes[8 - k], "commercial_assertion"))
    /\ d[12] = Drop(commercial_assertion)
    /\ \A k \in 1..2 : d[12 + k] = Drop(Index(span_indexes[3 - k], "evidence_span"))
    /\ d[15] = Drop(evidence_span) /\ d[16] = Drop(ix_source_record_tenant_id)
<1> DEFINE a == <<Create(source_record), Create(evidence_span)>>
           b == Indexes("create", span_indexes, "evidence_span")
           c == <<Create(commercial_assertion)>>
           e == Indexes("create", assertion_indexes, "commercial_assertion")
           f == <<Create(workflow_state), Create(ix_workflow_tenant_id),
                  Create(outbox_event), Create(ix_outbox_tenant_id)>>
           fd == <<Drop(ix_outbox_tenant_id), Drop(outbox_event),
                   Drop(ix_workflow_tenant_id), Drop(workflow_state)>>
           ed == Indexes("drop", Reverse(assertion_indexes), "commercial_assertion")
           cd == <<Drop(commercial_assertion)>>
           bd == Indexes("drop", Reverse(span_indexes), "evidence_span")
           ad == <<Drop(evidence_span), Drop(ix_source_record_tenant_id), Drop(source_record)>>
<1>1. /\ IsSequence(a) /\ IsSequence(c) /\ IsSequence(f)
      /\ IsSequence(fd) /\ IsSequence(cd) /\ IsSequence(ad)
      /\ Len(a) = 2 /\ Len(c) = 1 /\ Len(f) = 4 /\ Len(fd) = 4 /\ Len(cd) = 1 /\ Len(ad) = 3
  BY DEF IsSequence, ToSet
<1>2. /\ Len(span_indexes) = 2 /\ Len(assertion_indexes) = 7
      /\ DOMAIN span_indexes = 1..2 /\ DOMAIN assertion_indexes = 1..7
  BY DEF span_indexes, assertion_indexes
<1>3. /\ Reverse(span_indexes) = [k \in 1..2 |-> span_indexes[3 - k]]
      /\ Reverse(assertion_indexes) = [k \in 1..7 |-> assertion_indexes[8 - k]]
  BY <1>2 DEF Reverse
<1>4. /\ IsSequence(b) /\ IsSequence(e) /\ IsSequence(bd) /\ IsSequence(ed)
  <2>1. IsSequence(Reverse(span_indexes)) /\ IsSequence(Reverse(assertion_indexes))
    BY EarlyObjects, Backwards
  <2> QED BY <2>1, EarlyObjects, IndexesMembers
<1>5. /\ b = [k \in 1..2 |-> Create(Index(span_indexes[k], "evidence_span"))]
      /\ e = [k \in 1..7 |-> Create(Index(assertion_indexes[k], "commercial_assertion"))]
      /\ bd = [k \in 1..2 |-> Drop(Index(span_indexes[3 - k], "evidence_span"))]
      /\ ed = [k \in 1..7 |-> Drop(Index(assertion_indexes[8 - k], "commercial_assertion"))]
  BY <1>2, <1>3 DEF Indexes, Create, Drop
<1>6. Len(b) = 2 /\ Len(e) = 7 /\ Len(bd) = 2 /\ Len(ed) = 7
  <2>1. DOMAIN b = 1..2 /\ DOMAIN e = 1..7 /\ DOMAIN bd = 1..2 /\ DOMAIN ed = 1..7
    BY <1>5
  <2>2. \A s : IsSequence(s) => Len(s) \in Nat /\ DOMAIN s = 1..Len(s)
    BY LenProperties DEF IsSequence
  <2>3. \A m, n \in Nat : 1..m = 1..n => m = n
    OBVIOUS
  <2> HIDE DEF b, e, bd, ed
  <2> QED BY <1>4, <2>1, <2>2, <2>3
<1> DEFINE ab == a \o b
           abc == ab \o c
           abce == abc \o e
           u == abce \o f
           fe == fd \o ed
           fec == fe \o cd
           fecb == fec \o bd
           d == fecb \o ad
<1>7. upgrade_initial = u /\ downgrade_initial = d
  BY DEF upgrade_initial, downgrade_initial
<1>8. /\ a[1] = Create(source_record) /\ a[2] = Create(evidence_span)
      /\ c[1] = Create(commercial_assertion)
      /\ f[1] = Create(workflow_state) /\ f[2] = Create(ix_workflow_tenant_id)
      /\ f[3] = Create(outbox_event) /\ f[4] = Create(ix_outbox_tenant_id)
      /\ fd[1] = Drop(ix_outbox_tenant_id) /\ fd[2] = Drop(outbox_event)
      /\ fd[3] = Drop(ix_workflow_tenant_id) /\ fd[4] = Drop(workflow_state)
      /\ cd[1] = Drop(commercial_assertion)
      /\ ad[1] = Drop(evidence_span) /\ ad[2] = Drop(ix_source_record_tenant_id)
  OBVIOUS
<1>9. /\ \A k \in 1..2 : b[k] = Create(Index(span_indexes[k], "evidence_span"))
      /\ \A k \in 1..7 : e[k] = Create(Index(assertion_indexes[k], "commercial_assertion"))
      /\ \A k \in 1..2 : bd[k] = Drop(Index(span_indexes[3 - k], "evidence_span"))
      /\ \A k \in 1..7 : ed[k] = Drop(Index(assertion_indexes[8 - k], "commercial_assertion"))
  BY <1>5
<1>10. /\ ab = a \o b /\ abc = ab \o c /\ abce = abc \o e /\ u = abce \o f
       /\ fe = fd \o ed /\ fec = fe \o cd /\ fecb = fec \o bd /\ d = fecb \o ad
  OBVIOUS
<1> HIDE DEF a, b, c, e, f, ad, bd, cd, ed, fd, ab, abc, abce, u, fe, fec, fecb, d
<1>11. /\ IsSequence(ab) /\ Len(ab) = 4
       /\ \A k \in 1..2 : ab[k] = a[k]
       /\ \A k \in 1..2 : ab[2 + k] = b[k]
  <2>1. /\ IsSequence(a) /\ IsSequence(b) /\ ab = a \o b
        /\ Len(a) = 2 /\ Len(b) = 2
    BY <1>1, <1>4, <1>6, <1>10
  <2>2. Joined(ab, a, b, 2, 2)
    BY <2>1, ConcatPlaces
  <2> QED BY <2>2 DEF Joined
<1>12. /\ IsSequence(abc) /\ Len(abc) = 5
       /\ \A k \in 1..4 : abc[k] = ab[k]
       /\ \A k \in 1..1 : abc[4 + k] = c[k]
  <2>1. /\ IsSequence(ab) /\ IsSequence(c) /\ abc = ab \o c
        /\ Len(ab) = 4 /\ Len(c) = 1
    BY <1>1, <1>10, <1>11
  <2>2. Joined(abc, ab, c, 4, 1)
    BY <2>1, ConcatPlaces
  <2> QED BY <2>2 DEF Joined
<1>13. /\ IsSequence(abce) /\ Len(abce) = 12
       /\ \A k \in 1..5 : abce[k] = abc[k]
       /\ \A k \in 1..7 : abce[5 + k] = e[k]
  <2>1. /\ IsSequence(abc) /\ IsSequence(e) /\ abce = abc \o e
        /\ Len(abc) = 5 /\ Len(e) = 7
    BY <1>4, <1>6, <1>10, <1>12
  <2>2. Joined(abce, abc, e, 5, 7)
    BY <2>1, ConcatPlaces
  <2> QED BY <2>2 DEF Joined
<1>14. /\ IsSequence(u) /\ Len(u) = 16
       /\ \A k \in 1..12 : u[k] = abce[k]
       /\ \A k \in 1..4 : u[12 + k] = f[k]
  <2>1. /\ IsSequence(abce) /\ IsSequence(f) /\ u = abce \o f
        /\ Len(abce) = 12 /\ Len(f) = 4
    BY <1>1, <1>10, <1>13
  <2>2. Joined(u, abce, f, 12, 4)
    BY <2>1, ConcatPlaces
  <2> QED BY <2>2 DEF Joined
<1>15. /\ IsSequence(fe) /\ Len(fe) = 11
       /\ \A k \in 1..4 : fe[k] = fd[k]
       /\ \A k \in 1..7 : fe[4 + k] = ed[k]
  <2>1. /\ IsSequence(fd) /\ IsSequence(ed) /\ fe = fd \o ed
        /\ Len(fd) = 4 /\ Len(ed) = 7
    BY <1>1, <1>4, <1>6, <1>10
  <2>2. Joined(fe, fd, ed, 4, 7)
    BY <2>1, ConcatPlaces
  <2> QED BY <2>2 DEF Joined
<1>16. /\ IsSequence(fec) /\ Len(fec) = 12
       /\ \A k \in 1..11 : fec[k] = fe[k]
       /\ \A k \in 1..1 : fec[11 + k] = cd[k]
  <2>1. /\ IsSequence(fe) /\ IsSequence(cd) /\ fec = fe \o cd
        /\ Len(fe) = 11 /\ Len(cd) = 1
    BY <1>1, <1>10, <1>15
  <2>2. Joined(fec, fe, cd, 11, 1)
    BY <2>1, ConcatPlaces
  <2> QED BY <2>2 DEF Joined
<1>17. /\ IsSequence(fecb) /\ Len(fecb) = 14
       /\ \A k \in 1..12 : fecb[k] = fec[k]
       /\ \A k \in 1..2 : fecb[12 + k] = bd[k]
  <2>1. /\ IsSequence(fec) /\ IsSequence(bd) /\ fecb = fec \o bd
        /\ Len(fec) = 12 /\ Len(bd) = 2
    BY <1>4, <1>6, <1>10, <1>16
  <2>2. Joined(fecb, fec, bd, 12, 2)
    BY <2>1, ConcatPlaces
  <2> QED BY <2>2 DEF Joined
<1>18. /\ IsSequence(d) /\ Len(d) = 17
       /\ \A k \in 1..14 : d[k] = fecb[k]
       /\ \A k \in 1..3 : d[14 + k] = ad[k]
  <2>1. /\ IsSequence(fecb) /\ IsSequence(ad) /\ d = fecb \o ad
        /\ Len(fecb) = 14 /\ Len(ad) = 3
    BY <1>1, <1>10, <1>17
  <2>2. Joined(d, fecb, ad, 14, 3)
    BY <2>1, ConcatPlaces
  <2> QED BY <2>2 DEF Joined
<1>19. abc[5] = c[1] /\ fec[12] = cd[1]
  <2>1. abc[4 + 1] = c[1] /\ fec[11 + 1] = cd[1]
    BY <1>12, <1>16
  <2> QED BY <2>1
<1>20. /\ \A k \in 1..2 : u[k] = a[k]
       /\ \A k \in 1..2 : u[2 + k] = b[k]
       /\ u[5] = c[1]
       /\ \A k \in 1..7 : u[5 + k] = e[k]
  <2>1. \A k \in 1..2 : u[k] = a[k]
    BY <1>11, <1>12, <1>13, <1>14
  <2>2. \A k \in 1..2 : u[2 + k] = b[k]
    BY <1>11, <1>12, <1>13, <1>14
  <2>3. \A k \in 1..7 : u[5 + k] = e[k]
    BY <1>13, <1>14
  <2>4. u[5] = c[1]
    BY <1>19, <1>13, <1>14
  <2> QED BY <2>1, <2>2, <2>3, <2>4
<1>21. /\ \A k \in 1..4 : d[k] = fd[k]
       /\ \A k \in 1..7 : d[4 + k] = ed[k]
       /\ d[12] = cd[1]
       /\ \A k \in 1..2 : d[12 + k] = bd[k]
  <2>1. \A k \in 1..4 : d[k] = fd[k]
    BY <1>15, <1>16, <1>17, <1>18
  <2>2. \A k \in 1..7 : d[4 + k] = ed[k]
    BY <1>15, <1>16, <1>17, <1>18
  <2>3. d[12] = cd[1]
    BY <1>19, <1>17, <1>18
  <2>4. \A k \in 1..2 : d[12 + k] = bd[k]
    BY <1>17, <1>18
  <2> QED BY <2>1, <2>2, <2>3, <2>4
<1>22. /\ u[13] = f[1] /\ u[14] = f[2] /\ u[15] = f[3] /\ u[16] = f[4]
       /\ d[15] = ad[1] /\ d[16] = ad[2]
  <2>1. u[12 + 1] = f[1] /\ u[12 + 2] = f[2] /\ u[12 + 3] = f[3] /\ u[12 + 4] = f[4]
    BY <1>14
  <2>2. d[14 + 1] = ad[1] /\ d[14 + 2] = ad[2]
    BY <1>18
  <2> QED BY <2>1, <2>2
<1>23. d[1] = fd[1] /\ d[2] = fd[2] /\ d[3] = fd[3] /\ d[4] = fd[4]
  BY <1>21
<1>24. u[1] = a[1] /\ u[2] = a[2]
  BY <1>20
<1>25. Len(u) = 16 /\ Len(d) = 17
  BY <1>14, <1>18
<1> QED BY <1>7, <1>8, <1>9, <1>20, <1>21, <1>22, <1>23, <1>24, <1>25

-----------------------------------------------------------------------------
(***************************************************************************)
(* The objects of the three migrations, in the order in which they are made *)
(***************************************************************************)

\* The objects of 0001 in the order in which they are made: names and references.
InitialNames ==
    <<"source_record", "evidence_span", "ix_evidence_span_tenant_id",
      "ix_evidence_span_source_id", "commercial_assertion", "ix_assertion_tenant_id",
      "ix_assertion_entity_id", "ix_assertion_entity_attribute", "ix_assertion_recorded_at",
      "ix_assertion_valid_from", "ix_assertion_valid_to", "ix_assertion_status",
      "workflow_state", "ix_workflow_tenant_id", "outbox_event", "ix_outbox_tenant_id">>

\* The place of the table that the object at place j names, if it names one.
InitialReference(j) ==
    IF j = 2 THEN 1
    ELSE IF j \in 3..4 THEN 2
    ELSE IF j \in 6..12 THEN 5
    ELSE IF j = 14 THEN 13
    ELSE IF j = 16 THEN 15
    ELSE 0

\* The statements of 0001 make these objects, with these references (0001_initial.py).
LEMMA InitialObjects ==
    \A j \in 1..16 :
        /\ upgrade_initial[j].object.name = InitialNames[j]
        /\ upgrade_initial[j].object.refs =
              IF InitialReference(j) = 0 THEN {} ELSE {InitialNames[InitialReference(j)]}
<1> DEFINE u == upgrade_initial
           N == InitialNames
           Ok(j) == /\ u[j].object.name = N[j]
                    /\ u[j].object.refs =
                          IF InitialReference(j) = 0 THEN {} ELSE {N[InitialReference(j)]}
<1>1. \A o : Create(o).object = o
  BY DEF Create, Statement
<1>2. Ok(1) /\ Ok(2) /\ Ok(5) /\ Ok(13) /\ Ok(14) /\ Ok(15) /\ Ok(16)
  <2>1. /\ N[1] = "source_record" /\ N[2] = "evidence_span" /\ N[5] = "commercial_assertion"
        /\ N[13] = "workflow_state" /\ N[14] = "ix_workflow_tenant_id"
        /\ N[15] = "outbox_event" /\ N[16] = "ix_outbox_tenant_id"
    BY DEF InitialNames
  <2>2. /\ InitialReference(1) = 0 /\ InitialReference(2) = 1 /\ InitialReference(5) = 0
        /\ InitialReference(13) = 0 /\ InitialReference(14) = 13
        /\ InitialReference(15) = 0 /\ InitialReference(16) = 15
    BY DEF InitialReference
  <2>3. /\ source_record.name = "source_record" /\ source_record.refs = {}
        /\ evidence_span.name = "evidence_span" /\ evidence_span.refs = {"source_record"}
        /\ commercial_assertion.name = "commercial_assertion" /\ commercial_assertion.refs = {}
        /\ workflow_state.name = "workflow_state" /\ workflow_state.refs = {}
    BY DEF source_record, evidence_span, commercial_assertion, workflow_state, Table, Object
  <2>4. /\ ix_workflow_tenant_id.name = "ix_workflow_tenant_id"
        /\ ix_workflow_tenant_id.refs = {"workflow_state"}
        /\ outbox_event.name = "outbox_event" /\ outbox_event.refs = {}
        /\ ix_outbox_tenant_id.name = "ix_outbox_tenant_id"
        /\ ix_outbox_tenant_id.refs = {"outbox_event"}
    BY DEF ix_workflow_tenant_id, outbox_event, ix_outbox_tenant_id, Table, Index, Object
  <2>5. /\ u[1] = Create(source_record) /\ u[2] = Create(evidence_span)
        /\ u[5] = Create(commercial_assertion)
        /\ u[13] = Create(workflow_state) /\ u[14] = Create(ix_workflow_tenant_id)
        /\ u[15] = Create(outbox_event) /\ u[16] = Create(ix_outbox_tenant_id)
    BY InitialPlaces
  <2> HIDE DEF u, N
  <2>6. /\ u[1].object = source_record /\ u[2].object = evidence_span
        /\ u[5].object = commercial_assertion
        /\ u[13].object = workflow_state /\ u[14].object = ix_workflow_tenant_id
        /\ u[15].object = outbox_event /\ u[16].object = ix_outbox_tenant_id
    BY <1>1, <2>5
  <2>7. Ok(1) /\ Ok(5) /\ Ok(13)
    BY <2>1, <2>2, <2>3, <2>6
  <2>8. Ok(2)
    BY <2>1, <2>2, <2>3, <2>6
  <2>9. Ok(14)
    BY <2>1, <2>2, <2>4, <2>6
  <2>10. Ok(15)
    BY <2>1, <2>2, <2>4, <2>6
  <2>11. Ok(16)
    BY <2>1, <2>2, <2>4, <2>6
  <2> QED BY <2>7, <2>8, <2>9, <2>10, <2>11
<1>3. \A n, t : Index(n, t).name = n /\ Index(n, t).refs = {t}
  BY DEF Index, Object
<1>4. Ok(3) /\ Ok(4)
  <2>1. \A k \in 1..2 : u[2 + k] = Create(Index(span_indexes[k], "evidence_span"))
    BY InitialPlaces
  <2>2. /\ u[2 + 1] = Create(Index(span_indexes[1], "evidence_span"))
        /\ u[2 + 2] = Create(Index(span_indexes[2], "evidence_span"))
    BY <2>1
  <2>3. /\ span_indexes[1] = N[3] /\ span_indexes[2] = N[4] /\ N[2] = "evidence_span"
    BY DEF span_indexes, InitialNames
  <2>4. InitialReference(3) = 2 /\ InitialReference(4) = 2
    BY DEF InitialReference
  <2> HIDE DEF u, N
  <2>5. /\ u[3] = Create(Index(N[3], "evidence_span"))
        /\ u[4] = Create(Index(N[4], "evidence_span"))
    BY <2>2, <2>3
  <2>6. /\ u[3].object = Index(N[3], "evidence_span")
        /\ u[4].object = Index(N[4], "evidence_span")
    BY <1>1, <2>5
  <2>7. /\ u[3].object.name = N[3] /\ u[3].object.refs = {"evidence_span"}
        /\ u[4].object.name = N[4] /\ u[4].object.refs = {"evidence_span"}
    BY <1>3, <2>6
  <2> QED BY <2>3, <2>4, <2>7
<1>5. \A j \in 6..12 : Ok(j)
  <2>1. \A k \in 1..7 : u[5 + k] = Create(Index(assertion_indexes[k], "commercial_assertion"))
    BY InitialPlaces
  <2>2. \A k \in 1..7 : assertion_indexes[k] = N[5 + k]
    BY DEF assertion_indexes, InitialNames
  <2>3. N[5] = "commercial_assertion"
    BY DEF InitialNames
  <2>4. \A j \in 6..12 : InitialReference(j) = 5
    BY DEF InitialReference
  <2> SUFFICES ASSUME NEW j \in 6..12 PROVE Ok(j)
    OBVIOUS
  <2> HIDE DEF u, N
  <2>5. j - 5 \in 1..7 /\ 5 + (j - 5) = j
    OBVIOUS
  <2>6. u[j] = Create(Index(N[j], "commercial_assertion"))
    BY <2>1, <2>2, <2>5
  <2>7. u[j].object = Index(N[j], "commercial_assertion")
    BY <1>1, <2>6
  <2>8. u[j].object.name = N[j] /\ u[j].object.refs = {"commercial_assertion"}
    BY <1>3, <2>7
  <2>9. InitialReference(j) = 5
    BY <2>4
  <2> QED BY <2>3, <2>8, <2>9
<1> HIDE DEF Ok
<1>6. \A j \in 1..16 : j \in {1, 2, 5, 13, 14, 15, 16} \/ j \in {3, 4} \/ j \in 6..12
  OBVIOUS
<1>7. \A j \in 1..16 : Ok(j)
  BY <1>2, <1>4, <1>5, <1>6
<1> QED BY <1>7 DEF Ok

\* No name comes twice.
LEMMA InitialNamesDiffer ==
    \A j, k \in 1..16 : InitialNames[j] = InitialNames[k] => j = k
BY DEF InitialNames

\* Before(i, j) is what there is when upgrade i comes to its statement j.
Before(i, j) == Upto(i - 1) \cup {upgrades[i][k].object : k \in 1..(j - 1)}

\* Each statement of an upgrade can be executed where it stands: its object is new
\* and what it refers to has been made.
LEMMA UpgradeSound ==
    ASSUME NEW i \in 1..3, NEW j \in DOMAIN upgrades[i], NEW o, o = upgrades[i][j].object
    PROVE  /\ o.name \notin Names(Before(i, j))
           /\ o.name # "alembic_version"
           /\ o.refs \subseteq Names(Before(i, j))
           /\ upgrades[i][j].does = "create" => o.name # "vector"
<1> DEFINE Made(n) == {upgrades[n][k].object : k \in 1..(j - 1)}
<1>0. \A n \in 1..3 :
         /\ 1..(j - 1) = {} => Made(n) = {}
         /\ 1..(j - 1) = {1} => Made(n) = {upgrades[n][1].object}
         /\ 1..(j - 1) = {1, 2} => Made(n) = {upgrades[n][1].object, upgrades[n][2].object}
  OBVIOUS
<1>1. CASE i = 1
  <2>1. upgrades[1] = upgrade_initial /\ Upto(0) = {}
    BY UptoFacts DEF upgrades
  <2>2. DOMAIN upgrade_initial = 1..16
    <3>1. \A s : IsSequence(s) => DOMAIN s = 1..Len(s)
      BY LenProperties DEF IsSequence
    <3> QED BY <3>1, InitialFacts, InitialPlaces DEF AllEarly
  <2>3. j \in 1..16 /\ Before(i, j) = {upgrade_initial[k].object : k \in 1..(j - 1)}
    BY <1>1, <2>1, <2>2 DEF Before
  <2>4. Names(Before(i, j)) = {InitialNames[k] : k \in 1..(j - 1)}
    <3>1. \A k \in 1..(j - 1) : upgrade_initial[k].object.name = InitialNames[k]
      BY <2>3, InitialObjects
    <3> QED BY <2>3, <3>1 DEF Names
  <2>5. o.name = InitialNames[j] /\ o.name \notin Names(Before(i, j))
    BY <1>1, <2>1, <2>3, <2>4, InitialObjects, InitialNamesDiffer
  <2>6. o.refs \subseteq Names(Before(i, j))
    <3>1. InitialReference(j) # 0 => InitialReference(j) \in 1..(j - 1)
      BY <2>3 DEF InitialReference
    <3>2. o.refs = IF InitialReference(j) = 0 THEN {} ELSE {InitialNames[InitialReference(j)]}
      BY <1>1, <2>1, <2>3, InitialObjects
    <3> QED BY <2>4, <3>1, <3>2
  <2>7. o.name \notin LaterNames
    <3>1. o \in Upto(1)
      <4>1. upgrade_initial[j] \in ToSet(upgrade_initial)
        BY <2>2, <2>3 DEF ToSet
      <4> QED BY <1>1, <2>1, <4>1, UptoFacts DEF Objects
    <3> QED BY <3>1, Apart
  <2> QED BY <2>5, <2>6, <2>7 DEF LaterNames
<1>2. \A x : Create(x).object = x /\ CreateIfMissing(x).object = x
             /\ Create(x).does = "create" /\ CreateIfMissing(x).does = "create if missing"
  BY DEF Create, CreateIfMissing, Statement
<1>3. evidence_span \in Upto(1) /\ evidence_span.name = "evidence_span"
  <2>1. upgrade_initial[2] \in ToSet(upgrade_initial)
    <3>1. \A s : IsSequence(s) => DOMAIN s = 1..Len(s)
      BY LenProperties DEF IsSequence
    <3>2. 2 \in DOMAIN upgrade_initial
      BY <3>1, InitialFacts, InitialPlaces DEF AllEarly
    <3> QED BY <3>2 DEF ToSet
  <2>2. upgrade_initial[2].object = evidence_span
    BY <1>2, InitialPlaces
  <2>3. evidence_span.name = "evidence_span"
    BY DEF evidence_span, Table, Object
  <2> QED BY <2>1, <2>2, <2>3, UptoFacts DEF Objects
<1>3a. Before(i, j) = Upto(i - 1) \cup Made(i)
  BY DEF Before
<1> HIDE DEF Made
<1>4. CASE i = 2
  <2>1. upgrades[2] = <<Create(search_vector), Create(ix_evidence_span_search_vector)>>
    BY DEF upgrades, upgrade_retrieval
  <2>0. /\ upgrades[i][1] = Create(search_vector)
        /\ upgrades[i][2] = Create(ix_evidence_span_search_vector)
    BY <1>4, <2>1
  <2>2. Before(i, j) = Upto(1) \cup Made(2) /\ j \in 1..2
    BY <1>4, <1>3a, <2>1
  <2>3. CASE j = 1
    <3>1. 1..(j - 1) = {}
      BY <2>3
    <3>2. o = search_vector /\ upgrades[i][j].does = "create" /\ Before(i, j) = Upto(1)
      BY <1>2, <1>4, <2>0, <2>2, <2>3, <3>1, <1>0
    <3> QED BY <1>3, <3>2, Apart, LaterObjects DEF Names, LaterNames
  <2>4. CASE j = 2
    <3>1. 1..(j - 1) = {1}
      BY <2>4
    <3>2. /\ o = ix_evidence_span_search_vector /\ upgrades[i][j].does = "create"
          /\ Before(i, j) = Upto(1) \cup {search_vector}
      BY <1>2, <1>4, <2>0, <2>2, <2>4, <3>1, <1>0
    <3> QED BY <3>2, Apart, LaterObjects DEF Names, LaterNames
  <2> QED BY <2>2, <2>3, <2>4
<1>5. CASE i = 3
  <2>1. upgrades[3] = <<CreateIfMissing(vector), Create(evidence_embedding),
                        Create(ix_embedding_tenant_model)>>
    BY DEF upgrades, upgrade_vector
  <2>0. /\ upgrades[i][1] = CreateIfMissing(vector) /\ upgrades[i][2] = Create(evidence_embedding)
        /\ upgrades[i][3] = Create(ix_embedding_tenant_model)
    BY <1>5, <2>1
  <2>0a. /\ upgrades[i][1].object = vector /\ upgrades[i][2].object = evidence_embedding
         /\ upgrades[i][3].object = ix_embedding_tenant_model
         /\ upgrades[i][2].does = "create" /\ upgrades[i][3].does = "create"
    BY <1>2, <2>0
  <2>0b. /\ 1..(j - 1) = {1} => Made(i) = {vector}
         /\ 1..(j - 1) = {1, 2} => Made(i) = {vector, evidence_embedding}
    BY <1>0, <2>0a
  <2>2. Before(i, j) = Upto(2) \cup Made(3) /\ j \in 1..3
    BY <1>5, <1>3a, <2>1
  <2>3. CASE j = 1
    <3>1. 1..(j - 1) = {}
      BY <2>3
    <3>2. o = vector /\ upgrades[i][j].does = "create if missing" /\ Before(i, j) = Upto(2)
      BY <1>2, <1>5, <2>0, <2>2, <2>3, <3>1, <1>0
    <3>3. o.name = "vector" /\ o.refs = {}
      BY <3>2, LaterObjects
    <3>4. "vector" \notin Names(Upto(2))
      BY Apart DEF Names, VectorNames
    <3> QED BY <3>2, <3>3, <3>4
  <2>4. CASE j = 2
    <3>1. 1..(j - 1) = {1}
      BY <2>4
    <3>2. /\ o = evidence_embedding /\ upgrades[i][j].does = "create"
          /\ Before(i, j) = Upto(2) \cup {vector}
      BY <1>5, <2>0a, <2>0b, <2>2, <2>4, <3>1
    <3>3. evidence_span \in Upto(2)
      BY <1>3, UptoFacts
    <3> QED BY <1>3, <3>2, <3>3, Apart, LaterObjects DEF Names, VectorNames
  <2>5. CASE j = 3
    <3>1. 1..(j - 1) = {1, 2}
      BY <2>5
    <3>2. /\ o = ix_embedding_tenant_model /\ upgrades[i][j].does = "create"
          /\ Before(i, j) = Upto(2) \cup {vector, evidence_embedding}
      BY <1>5, <2>0a, <2>0b, <2>2, <2>5, <3>1
    <3> QED BY <3>2, Apart, LaterObjects DEF Names, VectorNames
  <2> QED BY <2>2, <2>3, <2>4, <2>5
<1> QED BY <1>1, <1>4, <1>5

-----------------------------------------------------------------------------
(***************************************************************************)
(* The statements of the upgrades and the objects they make.               *)
(***************************************************************************)

\* The objects of the upgrades are those of their statements.
LEMMA ObjectsHavePlaces ==
    /\ \A i \in 1..3 : /\ Len(upgrades[i]) \in Nat /\ DOMAIN upgrades[i] = 1..Len(upgrades[i])
                       /\ \A j \in DOMAIN upgrades[i] : upgrades[i][j].object \in Upto(i)
    /\ \A n \in 0..3 : \A p \in Upto(n) :
          \E i \in 1..n : \E j \in DOMAIN upgrades[i] : p = upgrades[i][j].object
<1>1. ASSUME NEW i \in 1..3
      PROVE  /\ Len(upgrades[i]) \in Nat /\ DOMAIN upgrades[i] = 1..Len(upgrades[i])
             /\ \A j \in DOMAIN upgrades[i] : upgrades[i][j].object \in Upto(i)
  <2>1. IsSequence(upgrades[i]) /\ \A s \in ToSet(upgrades[i]) : s.object \in Upto(i)
    BY UpgradeFacts
  <2>2. Len(upgrades[i]) \in Nat /\ DOMAIN upgrades[i] = 1..Len(upgrades[i])
    BY <2>1, LenProperties DEF IsSequence
  <2> QED BY <2>1, <2>2 DEF ToSet
<1>2. ASSUME NEW n \in 0..3, NEW p \in Upto(n)
      PROVE  \E i \in 1..n : \E j \in DOMAIN upgrades[i] : p = upgrades[i][j].object
  <2>1. PICK s \in UNION {ToSet(upgrades[i]) : i \in 1..n} : p = s.object
    BY DEF Upto
  <2>2. PICK i \in 1..n : s \in ToSet(upgrades[i])
    BY <2>1
  <2>3. \E j \in DOMAIN upgrades[i] : s = upgrades[i][j]
    BY <2>2 DEF ToSet
  <2> QED BY <2>1, <2>2, <2>3
<1> QED BY <1>1, <1>2

\* What is there before a statement, in other words.
LEMMA WhatIsBefore ==
    ASSUME NEW i \in 1..3, NEW j \in DOMAIN upgrades[i]
    PROVE  /\ Before(i, j) \subseteq Upto(i)
           /\ \A h \in 0..(i - 1) : Upto(h) \subseteq Before(i, j)
           /\ \A k \in DOMAIN upgrades[i] : k < j => upgrades[i][k].object \in Before(i, j)
           /\ \A q \in Before(i, j) :
                 q \in Upto(i - 1) \/ \E k \in DOMAIN upgrades[i] : k < j /\ q = upgrades[i][k].object
<1>1. /\ Len(upgrades[i]) \in Nat /\ DOMAIN upgrades[i] = 1..Len(upgrades[i])
      /\ \A k \in DOMAIN upgrades[i] : upgrades[i][k].object \in Upto(i)
  BY ObjectsHavePlaces
<1>2. \A k : k \in 1..(j - 1) <=> k \in DOMAIN upgrades[i] /\ k < j
  BY <1>1
<1>3. /\ i - 1 \in 0..3 /\ i \in 0..3 /\ i - 1 <= i
      /\ \A h \in 0..(i - 1) : h \in 0..3 /\ h <= i - 1
  OBVIOUS
<1> DEFINE n == i - 1
<1>4. n \in 0..3 /\ n <= i /\ \A h \in 0..n : h \in 0..3 /\ h <= n
  BY <1>3
<1> HIDE DEF n
<1>5. Upto(n) \subseteq Upto(i) /\ \A h \in 0..n : Upto(h) \subseteq Upto(n)
  BY <1>3, <1>4, UptoGrows
<1>6. Before(i, j) = Upto(n) \cup {upgrades[i][k].object : k \in 1..(j - 1)}
  BY DEF Before, n
<1>7. /\ Before(i, j) \subseteq Upto(i)
      /\ \A h \in 0..n : Upto(h) \subseteq Before(i, j)
  BY <1>1, <1>2, <1>5, <1>6
<1>8. \A k \in DOMAIN upgrades[i] : k < j => upgrades[i][k].object \in Before(i, j)
  BY <1>2, <1>6
<1>9. \A q \in Before(i, j) :
         q \in Upto(n) \/ \E k \in DOMAIN upgrades[i] : k < j /\ q = upgrades[i][k].object
  BY <1>2, <1>6
<1> QED BY <1>7, <1>8, <1>9 DEF n

\* Two statements of the upgrades make objects of different names.
LEMMA PlacesDiffer ==
    ASSUME NEW h \in 1..3, NEW k \in DOMAIN upgrades[h],
           NEW i \in 1..3, NEW j \in DOMAIN upgrades[i],
           upgrades[h][k].object.name = upgrades[i][j].object.name
    PROVE  h = i /\ k = j
<1>1. ASSUME NEW a \in 1..3, NEW b \in DOMAIN upgrades[a],
             NEW c \in 1..3, NEW d \in DOMAIN upgrades[c],
             a < c \/ (a = c /\ b < d)
      PROVE  upgrades[a][b].object.name # upgrades[c][d].object.name
  <2>1. upgrades[a][b].object \in Before(c, d)
    <3>1. CASE a < c
      <4>1. a \in 0..(c - 1)
        BY <3>1
      <4>2. upgrades[a][b].object \in Upto(a)
        BY ObjectsHavePlaces
      <4> QED BY <4>1, <4>2, WhatIsBefore
    <3>2. CASE a = c /\ b < d
      BY <3>2, WhatIsBefore
    <3> QED BY <1>1, <3>1, <3>2
  <2>2. upgrades[c][d].object.name \notin Names(Before(c, d))
    BY UpgradeSound
  <2> QED BY <2>1, <2>2 DEF Names
<1>2. j \in Nat /\ k \in Nat
  BY ObjectsHavePlaces
<1> QED BY <1>1, <1>2

\* A name tells an object.
LEMMA NameTells ==
    /\ \A p, q \in All : p.name = q.name => p = q
    /\ \A n \in 0..3 : \A p \in Upto(n) : p.refs \subseteq Names(Upto(n))
<1>1. ASSUME NEW p \in All, NEW q \in All, p.name = q.name
      PROVE  p = q
  <2>1. ASSUME NEW x \in Upto(3)
        PROVE  \E i \in 1..3 : \E j \in DOMAIN upgrades[i] : x = upgrades[i][j].object
    BY ObjectsHavePlaces
  <2>2. \A x \in Upto(3) : x.name # "alembic_version"
    <3> SUFFICES ASSUME NEW x \in Upto(3) PROVE x.name # "alembic_version"
      OBVIOUS
    <3>1. PICK i \in 1..3 : \E j \in DOMAIN upgrades[i] : x = upgrades[i][j].object
      BY <2>1
    <3>2. PICK j \in DOMAIN upgrades[i] : x = upgrades[i][j].object
      BY <3>1
    <3> QED BY <3>2, UpgradeSound
  <2>3. CASE p \in Upto(3) /\ q \in Upto(3)
    <3>1. PICK h \in 1..3 : \E k \in DOMAIN upgrades[h] : p = upgrades[h][k].object
      BY <2>1, <2>3
    <3>2. PICK k \in DOMAIN upgrades[h] : p = upgrades[h][k].object
      BY <3>1
    <3>3. PICK i \in 1..3 : \E j \in DOMAIN upgrades[i] : q = upgrades[i][j].object
      BY <2>1, <2>3
    <3>4. PICK j \in DOMAIN upgrades[i] : q = upgrades[i][j].object
      BY <3>3
    <3>5. h = i /\ k = j
      BY <1>1, <3>2, <3>4, PlacesDiffer
    <3> QED BY <3>2, <3>4, <3>5
  <2>4. alembic_version.name = "alembic_version"
    BY LaterObjects
  <2> QED BY <1>1, <2>2, <2>3, <2>4 DEF All
<1>2. ASSUME NEW n \in 0..3, NEW p \in Upto(n)
      PROVE  p.refs \subseteq Names(Upto(n))
  <2>1. PICK i \in 1..n : \E j \in DOMAIN upgrades[i] : p = upgrades[i][j].object
    BY ObjectsHavePlaces
  <2>2. PICK j \in DOMAIN upgrades[i] : p = upgrades[i][j].object
    BY <2>1
  <2>3. i \in 1..3 /\ i \in 0..3 /\ i <= n
    OBVIOUS
  <2>4. p.refs \subseteq Names(Before(i, j)) /\ Before(i, j) \subseteq Upto(i)
    BY <2>2, <2>3, UpgradeSound, WhatIsBefore
  <2>5. Upto(i) \subseteq Upto(n)
    BY <2>3, UptoGrows
  <2> QED BY <2>4, <2>5 DEF Names
<1> QED BY <1>1, <1>2

-----------------------------------------------------------------------------
(***************************************************************************)
(* Each statement can be executed where it stands.                         *)
(***************************************************************************)

\* The statements of a downgrade that are executed: that of 0001 ends at the index
\* that is not there.
Droppable(i) == {j \in DOMAIN downgrades[i] : i = 1 => j <= 15}

\* Downgrades go through the objects of the upgrades backwards.
LEMMA DowngradesMirror ==
    ASSUME NEW i \in 1..3
    PROVE  /\ Len(downgrades[i]) \in Nat /\ DOMAIN downgrades[i] = 1..Len(downgrades[i])
           /\ i = 1 => downgrades[i][16] = Drop(ix_source_record_tenant_id)
           /\ \A j \in Droppable(i) :
                 LET m == Len(upgrades[i]) + 1 - j IN
                 /\ m \in DOMAIN upgrades[i]
                 /\ downgrades[i][j].object = upgrades[i][m].object
                 /\ upgrades[i][m].does = "create"
<1>1. Len(downgrades[i]) \in Nat /\ DOMAIN downgrades[i] = 1..Len(downgrades[i])
  BY DowngradeFacts, LenProperties DEF IsSequence
<1>2. Len(upgrades[i]) \in Nat /\ DOMAIN upgrades[i] = 1..Len(upgrades[i])
  BY ObjectsHavePlaces
<1>3. \A x : /\ Create(x).object = x /\ Drop(x).object = x /\ Create(x).does = "create"
  BY DEF Create, Drop, Statement
<1> DEFINE m(j) == Len(upgrades[i]) + 1 - j
<1>4. SUFFICES /\ i = 1 => downgrades[i][16] = Drop(ix_source_record_tenant_id)
               /\ \A j \in Droppable(i) :
                     /\ m(j) \in DOMAIN upgrades[i]
                     /\ \E x : downgrades[i][j] = Drop(x) /\ upgrades[i][m(j)] = Create(x)
  <2> HIDE DEF m
  <2>1. ASSUME NEW j \in Droppable(i),
               \E x : downgrades[i][j] = Drop(x) /\ upgrades[i][m(j)] = Create(x)
        PROVE  /\ downgrades[i][j].object = upgrades[i][m(j)].object
               /\ upgrades[i][m(j)].does = "create"
    <3>1. PICK x : downgrades[i][j] = Drop(x) /\ upgrades[i][m(j)] = Create(x)
      BY <2>1
    <3> QED BY <1>3, <3>1
  <2> QED BY <1>1, <2>1 DEF m
<1>5. CASE i = 1
  <2> DEFINE u == upgrade_initial
             d == downgrade_initial
  <2>1. upgrades[i] = u /\ downgrades[i] = d
    BY <1>5 DEF upgrades, downgrades
  <2>2. /\ Len(u) = 16 /\ Len(d) = 17 /\ d[16] = Drop(ix_source_record_tenant_id)
        /\ d[1] = Drop(ix_outbox_tenant_id) /\ u[16] = Create(ix_outbox_tenant_id)
        /\ d[2] = Drop(outbox_event) /\ u[15] = Create(outbox_event)
        /\ d[3] = Drop(ix_workflow_tenant_id) /\ u[14] = Create(ix_workflow_tenant_id)
        /\ d[4] = Drop(workflow_state) /\ u[13] = Create(workflow_state)
        /\ d[12] = Drop(commercial_assertion) /\ u[5] = Create(commercial_assertion)
        /\ d[15] = Drop(evidence_span) /\ u[2] = Create(evidence_span)
    BY InitialPlaces
  <2>3. /\ \A k \in 1..2 : u[2 + k] = Create(Index(span_indexes[k], "evidence_span"))
        /\ \A k \in 1..2 : d[12 + k] = Drop(Index(span_indexes[3 - k], "evidence_span"))
    BY InitialPlaces
  <2>4. /\ \A k \in 1..7 : u[5 + k] = Create(Index(assertion_indexes[k], "commercial_assertion"))
        /\ \A k \in 1..7 : d[4 + k] = Drop(Index(assertion_indexes[8 - k], "commercial_assertion"))
    BY InitialPlaces
  <2> HIDE DEF u, d
  <2>5. ASSUME NEW j \in 1..15
        PROVE  \E x : d[j] = Drop(x) /\ u[17 - j] = Create(x)
    <3>1. CASE j \in 5..11
      <4> DEFINE k == j - 4
      <4>1. k \in 1..7 /\ 8 - k \in 1..7 /\ 4 + k = j /\ 5 + (8 - k) = 17 - j
        BY <3>1
      <4>2. /\ d[4 + k] = Drop(Index(assertion_indexes[8 - k], "commercial_assertion"))
            /\ u[5 + (8 - k)] = Create(Index(assertion_indexes[8 - k], "commercial_assertion"))
        BY <2>4, <4>1
      <4> QED BY <4>1, <4>2
    <3>2. CASE j \in 13..14
      <4> DEFINE k == j - 12
      <4>1. k \in 1..2 /\ 3 - k \in 1..2 /\ 12 + k = j /\ 2 + (3 - k) = 17 - j
        BY <3>2
      <4>2. /\ d[12 + k] = Drop(Index(span_indexes[3 - k], "evidence_span"))
            /\ u[2 + (3 - k)] = Create(Index(span_indexes[3 - k], "evidence_span"))
        BY <2>3, <4>1
      <4> QED BY <4>1, <4>2
    <3>3. CASE j \in {1, 2, 3, 4, 12, 15}
      <4>1. /\ 17 - 1 = 16 /\ 17 - 2 = 15 /\ 17 - 3 = 14 /\ 17 - 4 = 13
            /\ 17 - 12 = 5 /\ 17 - 15 = 2
        OBVIOUS
      <4> QED BY <2>2, <3>3, <4>1
    <3>4. j \in 5..11 \/ j \in 13..14 \/ j \in {1, 2, 3, 4, 12, 15}
      OBVIOUS
    <3> QED BY <3>1, <3>2, <3>3, <3>4
  <2>6. ASSUME NEW j \in Droppable(i)
        PROVE  j \in 1..15 /\ m(j) = 17 - j /\ m(j) \in DOMAIN upgrades[i]
    BY <1>1, <1>2, <1>5, <2>1, <2>2 DEF Droppable
  <2>7. ASSUME NEW j \in Droppable(i)
        PROVE  \E x : downgrades[i][j] = Drop(x) /\ upgrades[i][m(j)] = Create(x)
    <3> HIDE DEF m
    <3> QED BY <2>1, <2>5, <2>6
  <2> QED BY <2>1, <2>2, <2>6, <2>7
<1>6. CASE i = 2
  <2>1. /\ upgrades[2] = <<Create(search_vector), Create(ix_evidence_span_search_vector)>>
        /\ downgrades[2] = <<Drop(ix_evidence_span_search_vector), Drop(search_vector)>>
    BY DEF upgrades, upgrade_retrieval, downgrades, downgrade_retrieval
  <2>2. /\ Len(upgrades[2]) = 2 /\ DOMAIN downgrades[2] = 1..2
        /\ downgrades[2][1] = Drop(ix_evidence_span_search_vector)
        /\ downgrades[2][2] = Drop(search_vector)
        /\ upgrades[2][1] = Create(search_vector)
        /\ upgrades[2][2] = Create(ix_evidence_span_search_vector)
    BY <2>1
  <2>3. /\ 2 + 1 - 1 = 2 /\ 2 + 1 - 2 = 1 /\ \A j \in Droppable(2) : j = 1 \/ j = 2
    BY <2>2 DEF Droppable
  <2> QED BY <1>2, <1>6, <2>2, <2>3
<1>7. CASE i = 3
  <2>1. /\ upgrades[3] = <<CreateIfMissing(vector), Create(evidence_embedding),
                           Create(ix_embedding_tenant_model)>>
        /\ downgrades[3] = <<Drop(ix_embedding_tenant_model), Drop(evidence_embedding)>>
    BY DEF upgrades, upgrade_vector, downgrades, downgrade_vector
  <2>2. /\ Len(upgrades[3]) = 3 /\ DOMAIN downgrades[3] = 1..2
        /\ downgrades[3][1] = Drop(ix_embedding_tenant_model)
        /\ downgrades[3][2] = Drop(evidence_embedding)
        /\ upgrades[3][2] = Create(evidence_embedding)
        /\ upgrades[3][3] = Create(ix_embedding_tenant_model)
    BY <2>1
  <2>3. /\ 3 + 1 - 1 = 3 /\ 3 + 1 - 2 = 2 /\ \A j \in Droppable(3) : j = 1 \/ j = 2
    BY <2>2 DEF Droppable
  <2> QED BY <1>2, <1>7, <2>2, <2>3
<1> QED BY <1>5, <1>6, <1>7

\* What a downgrade has dropped when it comes to its statement j.
Undone(i, j) == {downgrades[i][k].object : k \in {k \in DOMAIN downgrades[i] : k < j}}

\* Each statement of a downgrade can be executed where it stands: its object is still
\* there, and all that names it has been dropped.
LEMMA DowngradeSound ==
    ASSUME NEW i \in 1..3, NEW j \in Droppable(i), NEW o, o = downgrades[i][j].object
    PROVE  /\ o \in Upto(i) /\ o \notin Kept
           /\ o \notin Undone(i, j)
           /\ \A p \in Upto(i) : o.name \in p.refs => p \in Undone(i, j)
<1> DEFINE L == Len(upgrades[i])
           m == L + 1 - j
<1>1. /\ L \in Nat /\ DOMAIN upgrades[i] = 1..L
      /\ Len(downgrades[i]) \in Nat /\ DOMAIN downgrades[i] = 1..Len(downgrades[i])
  BY ObjectsHavePlaces, DowngradesMirror
<1>2. j \in Nat /\ m \in DOMAIN upgrades[i] /\ o = upgrades[i][m].object
      /\ upgrades[i][m].does = "create"
  <2>1. j \in DOMAIN downgrades[i]
    BY DEF Droppable
  <2>2. /\ m \in DOMAIN upgrades[i] /\ downgrades[i][j].object = upgrades[i][m].object
        /\ upgrades[i][m].does = "create"
    BY DowngradesMirror
  <2> QED BY <1>1, <2>1, <2>2
<1>3. ASSUME NEW k \in DOMAIN downgrades[i], k < j
      PROVE  /\ k \in Droppable(i) /\ L + 1 - k \in DOMAIN upgrades[i]
             /\ downgrades[i][k].object = upgrades[i][L + 1 - k].object
  <2>1. k \in Droppable(i)
    BY <1>1, <1>3 DEF Droppable
  <2> QED BY <2>1, DowngradesMirror
<1> HIDE DEF L, m
<1>4. o \in Upto(i) /\ o \notin Kept
  <2>1. o.name # "vector" /\ o.name # "alembic_version"
    BY <1>2, UpgradeSound
  <2> QED BY <1>2, <2>1, ObjectsHavePlaces, LaterObjects DEF Kept
<1>5. o \notin Undone(i, j)
  <2> SUFFICES ASSUME NEW k \in DOMAIN downgrades[i], k < j PROVE downgrades[i][k].object # o
    BY DEF Undone
  <2>1. L + 1 - k # m /\ L + 1 - k \in DOMAIN upgrades[i]
    BY <1>1, <1>2, <1>3 DEF m
  <2> QED BY <1>2, <1>3, <2>1, PlacesDiffer
<1>6. ASSUME NEW p \in Upto(i), o.name \in p.refs
      PROVE  p \in Undone(i, j)
  <2>1. PICK h \in 1..i : \E n \in DOMAIN upgrades[h] : p = upgrades[h][n].object
    BY ObjectsHavePlaces
  <2>2. PICK n \in DOMAIN upgrades[h] : p = upgrades[h][n].object
    BY <2>1
  <2>3. h \in 1..3 /\ n \in Nat
    BY ObjectsHavePlaces
  <2>4. PICK q \in Before(h, n) : q.name = o.name
    <3>1. p.refs \subseteq Names(Before(h, n))
      BY <2>2, <2>3, UpgradeSound
    <3> QED BY <1>6, <3>1 DEF Names
  <2>5. PICK a \in 1..h : \E b \in DOMAIN upgrades[a] :
           q = upgrades[a][b].object /\ (a = h => b < n)
    <3>1. CASE q \in Upto(h - 1)
      <4> DEFINE g == h - 1
      <4>1. g \in 0..3 /\ \A a \in 1..g : a \in 1..h /\ a # h
        OBVIOUS
      <4>2. q \in Upto(g)
        BY <3>1
      <4> HIDE DEF g
      <4>3. \E a \in 1..g : \E b \in DOMAIN upgrades[a] : q = upgrades[a][b].object
        BY <4>1, <4>2, ObjectsHavePlaces
      <4> QED BY <4>1, <4>3
    <3>2. CASE \E k \in DOMAIN upgrades[h] : k < n /\ q = upgrades[h][k].object
      <4>1. h \in 1..h
        OBVIOUS
      <4> QED BY <3>2, <4>1
    <3> QED BY <2>2, <2>3, <2>4, <3>1, <3>2, WhatIsBefore
  <2>6. PICK b \in DOMAIN upgrades[a] : q = upgrades[a][b].object /\ (a = h => b < n)
    BY <2>5
  <2>7. a \in 1..3
    BY <2>3
  <2>8. a = i /\ b = m
    BY <1>2, <2>4, <2>6, <2>7, PlacesDiffer
  <2>9. h = i /\ m < n
    BY <2>6, <2>8
  <2>10. L + 1 - n \in DOMAIN downgrades[i] /\ L + 1 - n < j
    BY <1>1, <1>2, <2>2, <2>9 DEF m, Droppable
  <2>11. downgrades[i][L + 1 - n].object = upgrades[i][L + 1 - (L + 1 - n)].object
    BY <1>3, <2>10
  <2>12. L + 1 - (L + 1 - n) = n
    BY <1>1, <2>3
  <2> QED BY <2>2, <2>9, <2>10, <2>11, <2>12 DEF Undone
<1> QED BY <1>4, <1>5, <1>6

\* So nothing of the migrations disappears together with it.
LEMMA CascadeIsSingle ==
    ASSUME NEW i \in 1..3, NEW j \in Droppable(i), NEW o, o = downgrades[i][j].object,
           NEW objects \in SUBSET All, objects \cap Undone(i, j) = {}
    PROVE  /\ Cascade(o, objects) \cap Upto(i) = {o}
           /\ Cascade(o, objects) \cap Kept = {}
<1> DEFINE with(names) == {p \in objects : p.kind \in {"index", "column"} /\ p.refs \cap names # {}}
           columns == with({o.name})
<1>1. Cascade(o, objects) = {o} \cup columns \cup with(Names(columns))
  BY DEF Cascade
<1>2. columns \cap Upto(i) = {}
  BY DowngradeSound
<1>3. with(Names(columns)) \cap Upto(i) = {}
  <2> SUFFICES ASSUME NEW p \in objects, p \in Upto(i), NEW r \in p.refs, r \in Names(columns)
               PROVE  FALSE
    OBVIOUS
  <2>1. PICK q \in columns : r = q.name
    BY DEF Names
  <2>2. i \in 0..3
    OBVIOUS
  <2>3. PICK x \in Upto(i) : r = x.name
    BY <2>2, NameTells DEF Names
  <2>4. q \in All /\ x \in All
    BY <2>2, UpgradeFacts
  <2>5. q = x
    BY <2>1, <2>3, <2>4, NameTells
  <2> QED BY <1>2, <2>5
<1>4. o \in Upto(i) /\ o \notin Kept
  BY DowngradeSound
<1>5. \A p \in Kept : p.kind \notin {"index", "column"}
  BY DEF Kept, vector, alembic_version, Table, Object
<1>6. \A p \in columns \cup with(Names(columns)) : p.kind \in {"index", "column"}
  OBVIOUS
<1> HIDE DEF with, columns
<1> QED BY <1>1, <1>2, <1>3, <1>4, <1>5, <1>6

-----------------------------------------------------------------------------
(***************************************************************************)
(* What a command sees of the schema.                                      *)
(***************************************************************************)

\* What a command sees: it found the schema of its revision and has changed only what
\* its statements name; and what no downgrade removes stays, whoever commits.
Sight(c, s) ==
    /\ c.found.schema \subseteq All
    /\ c.found.schema \ Kept = Upto(c.found.revision) \ Kept
    /\ c.dropped \cap Kept = {}
    /\ c.next = 0 => alembic_version \notin c.found.schema /\ c.made = {}
    /\ c.at < c.target =>
          /\ c.made \ Kept \subseteq Upto(c.at) \cup Executed(c)
          /\ Executed(c) \cap Kept \subseteq s \cup c.made
    /\ c.target < c.at =>
          /\ Upto(c.found.revision) \ (Upto(c.at) \cup Kept) \subseteq c.dropped
          /\ c.dropped \cap Upto(c.at) \subseteq Executed(c)
          /\ Executed(c) \ Kept \subseteq c.dropped

SightInv ==
    /\ MigrationsInv
    /\ \A op \in Operators : command[op] # None => Sight(command[op], schema)
    /\ RefusedOnlyAtMissingIndex

\* The statements a command has executed are those before its next one.
LEMMA ExecutedPlaces ==
    ASSUME NEW c, NEW r, CommandInv(c, r), c.at # c.target, c.next \in DOMAIN Migration(c)
    PROVE  /\ c.at < c.target =>
                 /\ c.at + 1 \in 1..3 /\ c.next \in DOMAIN upgrades[c.at + 1]
                 /\ Migration(c) = upgrades[c.at + 1]
                 /\ Before(c.at + 1, c.next) = Upto(c.at) \cup Executed(c)
           /\ c.target < c.at =>
                 /\ c.at \in 1..3 /\ c.next \in DOMAIN downgrades[c.at]
                 /\ Migration(c) = downgrades[c.at]
                 /\ Undone(c.at, c.next) = Executed(c)
                 /\ c.at = 1 => c.next <= 16
                 /\ c.next \in Droppable(c.at) => Executed(c) \cap Kept = {}
<1>0. c.at \in 0..3 /\ c.target \in 0..3 /\ c.next \in Nat
      /\ Len(Migration(c)) \in Nat /\ DOMAIN Migration(c) = 1..Len(Migration(c))
  BY InMigration DEF CommandInv, Shape
<1>1. CASE c.at < c.target
  <2>1. c.at + 1 \in 1..3 /\ Migration(c) = upgrades[c.at + 1]
    BY <1>0, <1>1, InMigration
  <2> DEFINE i == c.at + 1
  <2>2. i - 1 = c.at
    BY <1>0
  <2>3. \A k : k \in 1..(c.next - 1) <=> k \in DOMAIN Migration(c) /\ k < c.next
    BY <1>0
  <2>4. Before(i, c.next) = Upto(i - 1) \cup {upgrades[i][k].object : k \in 1..(c.next - 1)}
    BY DEF Before
  <2>5. Executed(c) = {Migration(c)[k].object : k \in 1..(c.next - 1)}
    BY <2>3 DEF Executed
  <2> HIDE DEF i
  <2>6. Before(i, c.next) = Upto(c.at) \cup Executed(c)
    BY <2>1, <2>2, <2>4, <2>5 DEF i
  <2> QED BY <1>0, <1>1, <2>1, <2>6 DEF i
<1>2. CASE c.target < c.at
  <2>1. /\ c.at \in 1..3 /\ c.next \in DOMAIN downgrades[c.at] /\ Migration(c) = downgrades[c.at]
        /\ c.target < c.found.revision
    BY <1>0, <1>2, InMigration
  <2>2. Undone(c.at, c.next) = Executed(c)
    BY <2>1 DEF Undone, Executed
  <2>3. c.at = 1 => c.next <= 16
    <3> SUFFICES ASSUME c.at = 1, c.next > 16 PROVE FALSE
      BY <1>0
    <3>1. downgrades[1][16] = Drop(ix_source_record_tenant_id) /\ 16 \in DOMAIN downgrades[1]
      BY <1>0, <2>1, DowngradesMirror
    <3>2. Drop(ix_source_record_tenant_id).object = ix_source_record_tenant_id
      BY DEF Drop, Statement
    <3>3. ix_source_record_tenant_id \in Undone(c.at, c.next)
      BY <3>1, <3>2 DEF Undone
    <3>4. c.target = 0
      BY <1>0, <1>2
    <3> QED BY <2>1, <2>2, <3>3, <3>4 DEF CommandInv, Downgrading
  <2>4. ASSUME c.next \in Droppable(c.at)
        PROVE  Executed(c) \cap Kept = {}
    <3> SUFFICES ASSUME NEW k \in DOMAIN downgrades[c.at], k < c.next
                 PROVE  downgrades[c.at][k].object \notin Kept
      BY <2>2 DEF Undone
    <3>1. k \in Nat
      BY <1>0, <2>1
    <3>2. k \in Droppable(c.at)
      BY <1>0, <2>4, <3>1 DEF Droppable
    <3> QED BY <2>1, <3>2, DowngradeSound
  <2> QED BY <1>0, <1>2, <2>1, <2>2, <2>3, <2>4
<1> QED BY <1>0, <1>1, <1>2

\* A command that sees what it found can execute its next statement, or that is the
\* one about the index that is not there.
LEMMA UndisturbedGoesOn ==
    ASSUME MigrationsInv, NEW c, CommandInv(c, revision), Sight(c, schema),
           c.found.schema = schema, c.found.revision = revision,
           c.next = 0 \/ (c.at # c.target /\ c.next \in DOMAIN Migration(c)),
           NEW s, s = NextStatement(c)
    PROVE  \/ Applicable(s, View(c))
           \/ s.does = "create if missing" /\ s.object \in View(c)
           \/ s = Drop(ix_source_record_tenant_id)
<1>0. /\ schema \subseteq All /\ schema \ Kept = Upto(revision) \ Kept /\ c.made \subseteq All
      /\ c.at \in 0..3 /\ c.target \in 0..3 /\ c.next \in Nat /\ revision \in 0..3
      /\ View(c) \subseteq All
  BY DEF MigrationsInv, CommandInv, Shape, View
<1>1. CASE c.next = 0
  <2>1. s = Create(alembic_version) /\ s.does = "create" /\ s.object = alembic_version
    BY <1>1 DEF NextStatement, Create, Statement
  <2>2. alembic_version \notin View(c) /\ alembic_version \in All
    BY <1>1 DEF Sight, View, All
  <2>3. alembic_version.name \notin Names(View(c))
    BY <1>0, <2>2, NameTells DEF Names
  <2> QED BY <2>1, <2>3, LaterObjects DEF Applicable
<1>2. CASE c.next # 0
  <2> DEFINE o == s.object
  <2>0. c.at # c.target /\ c.next \in DOMAIN Migration(c) /\ s = Migration(c)[c.next]
    <3>1. c.at # c.target /\ c.next \in DOMAIN Migration(c)
      BY <1>2
    <3>2. c.next <= Len(Migration(c))
      BY <3>1, InMigration
    <3> QED BY <1>2, <3>1, <3>2 DEF NextStatement
  <2>1. CASE c.at < c.target
    <3> DEFINE i == c.at + 1
    <3>1. /\ i \in 1..3 /\ c.next \in DOMAIN upgrades[i] /\ s = upgrades[i][c.next]
          /\ Before(i, c.next) = Upto(c.at) \cup Executed(c)
      BY <2>0, <2>1, ExecutedPlaces
    <3>2. c.at \in 0..2
      BY <1>0, <3>1
    <3> HIDE DEF i
    <3>3. /\ o.name \notin Names(Before(i, c.next)) /\ o.name # "alembic_version"
          /\ o.refs \subseteq Names(Before(i, c.next))
          /\ s.does = "create" => o.name # "vector"
      BY <3>1, UpgradeSound
    <3>4. s.does \in {"create", "create if missing"} /\ o \in All
      <4>1. s \in ToSet(upgrades[i])
        BY <3>1 DEF ToSet
      <4>2. i \in 0..3
        BY <3>1
      <4> QED BY <3>1, <4>1, <4>2, UpgradeFacts
    <3>5. /\ revision < c.target /\ revision <= c.at /\ c.dropped = {}
          /\ Upto(c.at) \ (Upto(revision) \cup Kept) \subseteq c.made
          /\ Executed(c) \ Kept \subseteq c.made
      <4>1. c.found.revision < c.target
        BY <1>0, <2>0, <2>1, InMigration
      <4> QED BY <2>0, <4>1 DEF CommandInv, Upgrading
    <3>6. /\ c.made \ Kept \subseteq Upto(c.at) \cup Executed(c)
          /\ Executed(c) \cap Kept \subseteq schema \cup c.made
      BY <2>1 DEF Sight
    <3>7. View(c) = schema \cup c.made
      BY <3>5 DEF View
    <3>8. Upto(revision) \subseteq Upto(c.at) /\ Upto(c.at) \cap Kept = {}
      <4>1. Upto(revision) \subseteq Upto(c.at)
        BY <1>0, <3>5, UptoGrows
      <4>2. Upto(c.at) \subseteq Upto(2) /\ Upto(c.at) \subseteq Upto(3)
        BY <3>2, UptoGrows
      <4> QED BY <4>1, <4>2, Apart, LaterObjects DEF Kept, VectorNames
    <3>9. View(c) \ Kept = (Upto(c.at) \cup Executed(c)) \ Kept
      BY <1>0, <3>5, <3>6, <3>7, <3>8
    <3>10. Before(i, c.next) \subseteq View(c)
      BY <3>1, <3>6, <3>7, <3>8, <3>9
    <3>11. o.refs \subseteq Names(View(c))
      BY <3>3, <3>10 DEF Names
    <3>12. ASSUME NEW p \in View(c), p.name = o.name
           PROVE  s.does = "create if missing" /\ o \in View(c)
      <4>1. p = o
        BY <1>0, <3>4, <3>12, NameTells
      <4>2. p \in Kept
        BY <3>1, <3>3, <3>9, <3>12 DEF Names
      <4>3. o.name = "vector"
        BY <3>3, <4>1, <4>2, LaterObjects DEF Kept
      <4> QED BY <3>3, <3>4, <4>1, <4>3
    <3> QED BY <3>4, <3>11, <3>12 DEF Applicable, Names
  <2>2. CASE c.target < c.at
    <3> DEFINE i == c.at
    <3>1. /\ i \in 1..3 /\ c.next \in DOMAIN downgrades[i] /\ s = downgrades[i][c.next]
          /\ Undone(i, c.next) = Executed(c)
          /\ i = 1 => c.next <= 16
          /\ c.next \in Droppable(i) => Executed(c) \cap Kept = {}
      BY <2>0, <2>2, ExecutedPlaces
    <3>2. /\ Upto(revision) \ (Upto(i) \cup Kept) \subseteq c.dropped
          /\ c.dropped \cap Upto(i) \subseteq Executed(c)
          /\ Executed(c) \ Kept \subseteq c.dropped
      BY <2>2 DEF Sight
    <3>3. c.target < revision /\ i <= revision /\ c.made \subseteq Kept
      <4>1. c.target < c.found.revision
        BY <1>0, <2>0, <2>2, InMigration
      <4> QED BY <2>0, <4>1 DEF CommandInv, Downgrading
    <3>4. s.does = "drop"
      <4>1. s \in ToSet(downgrades[i])
        BY <3>1 DEF ToSet
      <4> QED BY <3>1, <4>1, DowngradeFacts
    <3>5. i \in 0..3
      BY <3>1
    <3> HIDE DEF i
    <3>6. CASE c.next \notin Droppable(i)
      <4>1. i = 1 /\ c.next = 16
        BY <1>0, <3>1, <3>6 DEF Droppable
      <4> QED BY <3>1, <4>1, DowngradesMirror
    <3>7. CASE c.next \in Droppable(i)
      <4>1. /\ o \in Upto(i) /\ o \notin Kept /\ o \notin Executed(c)
            /\ \A p \in Upto(i) : o.name \in p.refs => p \in Executed(c)
        <5>1. /\ o = downgrades[i][c.next].object
              /\ o \in Upto(i) /\ o \notin Kept /\ o \notin Undone(i, c.next)
              /\ \A p \in Upto(i) : o.name \in p.refs => p \in Undone(i, c.next)
          BY <3>1, <3>7, DowngradeSound
        <5> QED BY <3>1, <5>1
      <4>2. o \in View(c)
        <5>1. Upto(i) \subseteq Upto(revision)
          BY <1>0, <3>3, <3>5, UptoGrows
        <5> QED BY <1>0, <3>2, <4>1, <5>1 DEF View
      <4>3. ASSUME NEW p \in View(c), o.name \in p.refs
            PROVE  FALSE
        <5>1. p \notin Kept
          BY <4>3, LaterObjects DEF Kept
        <5>2. p \in Upto(revision) /\ p \notin c.dropped
          BY <1>0, <3>3, <5>1 DEF View
        <5>3. p \in Upto(i)
          BY <3>2, <5>1, <5>2
        <5> QED BY <3>2, <4>1, <4>3, <5>1, <5>2, <5>3
      <4> QED BY <3>4, <4>2, <4>3 DEF Applicable
    <3> QED BY <3>6, <3>7
  <2>3. c.at < c.target \/ c.target < c.at
    BY <1>0, <2>0
  <2> QED BY <2>1, <2>2, <2>3
<1> QED BY <1>1, <1>2

-----------------------------------------------------------------------------
(***************************************************************************)
(* What a command sees stays so.                                           *)
(***************************************************************************)

\* What is said of a command stays true when others commit.
LEMMA SightStays ==
    ASSUME NEW c, NEW s, NEW t, Sight(c, s), s \cap Kept \subseteq t
    PROVE  Sight(c, t)
BY DEF Sight

\* It executes a statement.
LEMMA SightMigrate ==
    ASSUME MigrationsInv, NEW op \in Operators, Migrate(op), command[op] # None,
           Sight(command[op], schema), command'[op] # None
    PROVE  Sight(command'[op], schema)
<1> DEFINE c == command[op]
           s == NextStatement(c)
           o == s.object
           K == Cascade(o, View(c))
<1>0. CommandInv(c, revision) /\ ~Finished(c) /\ s.does # "stamp"
  BY DEF MigrationsInv, Migrate, Free
<1>0a. c.at \in 0..3 /\ c.target \in 0..3 /\ c.next \in Nat /\ Shape(c)
  BY <1>0 DEF CommandInv, Shape
<1>0b. Sight(c, schema)
  OBVIOUS
<1>1. \E made, dropped :
         /\ command'[op] = After(c, made, dropped, Locks(s))
         /\ \/ made = {} /\ dropped = {} /\ s.does = "create if missing" /\ o \in View(c)
            \/ made = {} /\ dropped = K /\ s.does = "drop" /\ o \in View(c)
            \/ made = {o} /\ dropped = {} /\ s.does # "drop"
  <2>1. ~Fail(op)
    BY DEF Fail, MigrationsInv
  <2>2. ASSUME NEW made, NEW dropped, Proceed(op, made, dropped)
        PROVE  command'[op] = After(c, made, dropped, Locks(s))
    BY <2>2 DEF Proceed, After, MigrationsInv
  <2>3. \/ Proceed(op, {}, {}) /\ s.does = "create if missing" /\ o \in View(c)
        \/ Proceed(op, {}, K) /\ s.does = "drop" /\ o \in View(c)
        \/ Proceed(op, {o}, {}) /\ s.does # "drop"
    BY <2>1 DEF Migrate, Applicable
  <2> QED BY <2>2, <2>3
<1>2. PICK made, dropped :
         /\ command'[op] = After(c, made, dropped, Locks(s))
         /\ \/ made = {} /\ dropped = {} /\ s.does = "create if missing" /\ o \in View(c)
            \/ made = {} /\ dropped = K /\ s.does = "drop" /\ o \in View(c)
            \/ made = {o} /\ dropped = {} /\ s.does # "drop"
  BY <1>1
<1> DEFINE d == After(c, made, dropped, Locks(s))
<1>3. /\ d.at = c.at /\ d.target = c.target /\ d.next = c.next + 1 /\ d.next # 0
      /\ d.made = (c.made \ dropped) \cup made /\ d.dropped = (c.dropped \ made) \cup dropped
      /\ d.found = c.found
  BY <1>0a, AfterFields
<1>4. View(c) \subseteq All
  BY <1>0 DEF MigrationsInv, View, CommandInv, Shape
<1>5. CASE c.next = 0
  <2>1. s = Create(alembic_version) /\ o = alembic_version /\ s.does = "create"
    BY <1>5 DEF NextStatement, Create, Statement
  <2>2. made = {alembic_version} /\ dropped = {}
    BY <1>2, <2>1
  <2>3. c.at # c.target => Executed(d) = {} /\ Executed(c) = {}
    BY <1>0, <1>5, ExecutedStep
  <2>4. d.made \ Kept = c.made \ Kept /\ d.dropped = c.dropped \ {alembic_version}
        /\ c.made \subseteq d.made
    BY <1>3, <2>2 DEF Kept
  <2>5. d.at < d.target \/ d.target < d.at => c.at # c.target
    BY <1>0a, <1>3
  <2> HIDE DEF c, d
  <2>6. Sight(d, schema)
    BY <1>0b, <1>3, <2>3, <2>4, <2>5 DEF Sight, Kept
  <2> QED BY <1>2, <2>6 DEF d
<1>6. CASE c.next # 0
  <2>1. c.at # c.target /\ c.next \in DOMAIN Migration(c) /\ s = Migration(c)[c.next]
    <3>1. c.at # c.target
      BY <1>0, <1>0a, <1>6 DEF Finished
    <3>2. c.next <= Len(Migration(c))
      BY <1>0, <1>6 DEF NextStatement, Stamp
    <3> QED BY <1>0, <1>0a, <1>6, <3>1, <3>2, InMigration DEF NextStatement
  <2>2. Executed(d) = Executed(c) \cup {o}
    BY <1>0, <2>1, ExecutedStep
  <2>3. CASE c.at < c.target
    <3>1. c.dropped = {}
      BY <1>0, <1>0a, <2>1, <2>3, InMigration DEF CommandInv, Upgrading
    <3>2. s.does # "drop"
      <4> DEFINE i == c.at + 1
      <4>1. i \in 1..3 /\ s \in ToSet(upgrades[i])
        BY <1>0, <2>1, <2>3, ExecutedPlaces DEF ToSet
      <4> HIDE DEF i
      <4> QED BY <4>1, UpgradeFacts
    <3>3. dropped = {} /\ made \subseteq {o} /\ (made = {} => o \in schema \cup c.made)
      BY <1>2, <3>2 DEF View
    <3>4. ~(d.target < d.at)
      BY <1>0a, <1>3, <2>3
    <3> HIDE DEF c, d
    <3>5. o \in made \/ o \in schema \cup c.made
      BY <3>3
    <3> QED BY <1>0b, <1>2, <1>3, <2>2, <2>3, <3>1, <3>3, <3>4, <3>5 DEF Sight, d
  <2>4. CASE c.target < c.at
    <3>1. /\ c.at \in 1..3 /\ c.next \in DOMAIN downgrades[c.at] /\ s = downgrades[c.at][c.next]
          /\ Undone(c.at, c.next) = Executed(c)
          /\ c.at = 1 => c.next <= 16
          /\ c.next \in Droppable(c.at) => Executed(c) \cap Kept = {}
      BY <1>0, <2>1, <2>4, ExecutedPlaces
    <3>2. s.does = "drop"
      <4>1. s \in ToSet(downgrades[c.at])
        BY <3>1 DEF ToSet
      <4> QED BY <3>1, <4>1, DowngradeFacts
    <3>3. made = {} /\ dropped = K /\ o \in View(c)
      BY <1>2, <3>2
    <3>4. c.next \in Droppable(c.at)
      <4> SUFFICES ASSUME c.at = 1, c.next = 16 PROVE FALSE
        BY <1>0a, <3>1 DEF Droppable
      <4>1. s = Drop(ix_source_record_tenant_id)
        BY <3>1, DowngradesMirror
      <4>2. o = ix_source_record_tenant_id
        BY <4>1 DEF Drop, Statement
      <4> QED BY <1>4, <3>3, <4>2, Apart
    <3>5. c.made \subseteq Kept
      BY <1>0, <1>0a, <2>1, <2>4, InMigration DEF CommandInv, Downgrading
    <3>6. /\ Upto(c.found.revision) \ (Upto(c.at) \cup Kept) \subseteq c.dropped
          /\ c.dropped \cap Upto(c.at) \subseteq Executed(c)
          /\ Executed(c) \ Kept \subseteq c.dropped
      BY <1>0b, <2>4 DEF Sight
    <3>7. View(c) \cap Undone(c.at, c.next) = {}
      BY <3>1, <3>4, <3>5, <3>6 DEF View
    <3>8. K \cap Upto(c.at) = {o} /\ K \cap Kept = {}
      BY <1>4, <3>1, <3>4, <3>7, CascadeIsSingle
    <3>9. ~(d.at < d.target)
      BY <1>0a, <1>3, <2>4
    <3> HIDE DEF c, d, K
    <3> QED BY <1>0b, <1>2, <1>3, <2>2, <3>3, <3>6, <3>8, <3>9 DEF Sight, d
  <2> QED BY <1>0a, <2>1, <2>3, <2>4
<1> QED BY <1>5, <1>6

\* It finishes a migration.
LEMMA SightAdvance ==
    ASSUME MigrationsInv, NEW op \in Operators, command[op] # None, command'[op] # None,
           ~Finished(command[op]), NextStatement(command[op]).does = "stamp", Advance(op),
           CommandInv(command'[op], revision),
           Sight(command[op], schema)
    PROVE  Sight(command'[op], schema)
<1> DEFINE c == command[op]
           l == Locks(NextStatement(c))
           d == Further(c, l)
           f == c.found.revision
<1>1. command'[op] = d
  BY DEF Advance, Further, MigrationsInv
<1>2. CommandInv(c, revision) /\ CommandInv(d, revision) /\ Sight(c, schema)
  BY <1>1 DEF MigrationsInv
<1>3. c.at \in 0..3 /\ c.target \in 0..3 /\ c.next \in Nat /\ Shape(c) /\ f \in 0..3
  BY <1>2 DEF CommandInv, Shape
<1>4. /\ d.at = Following(c) /\ d.target = c.target /\ d.next = 1
      /\ d.made = c.made /\ d.dropped = c.dropped /\ d.found = c.found
  <2>1. /\ d.target = c.target /\ d.next = 1
        /\ d.made = c.made /\ d.dropped = c.dropped /\ d.found = c.found
    <3> HIDE DEF c, l
    <3> QED BY <1>3 DEF Further, Shape
  <2>2. d.at = Following(c)
    BY <1>3, FurtherFields
  <2> QED BY <2>1, <2>2
<1>5. d.at # d.target => Executed(d) = {}
  BY <1>2, <1>4, ExecutedStep
<1>6. c.next # 0 /\ c.at # c.target
  <2>1. Create(alembic_version).does = "create"
    BY DEF Create, Statement
  <2>2. c.next # 0
    BY <2>1 DEF NextStatement
  <2> QED BY <1>3, <2>2 DEF Finished
<1>7. c.next > Len(Migration(c)) /\ Executed(c) = Objects(Migration(c))
  <2>1. /\ Len(Migration(c)) \in Nat /\ DOMAIN Migration(c) = 1..Len(Migration(c))
        /\ \A s \in ToSet(Migration(c)) : s.does # "stamp"
    BY <1>2, <1>6, InMigration
  <2>2. c.next > Len(Migration(c))
    <3> SUFFICES ASSUME c.next \in DOMAIN Migration(c) PROVE FALSE
      BY <1>3, <1>6, <2>1
    <3>1. NextStatement(c) = Migration(c)[c.next]
      BY <1>6, <2>1 DEF NextStatement
    <3> QED BY <2>1, <3>1 DEF ToSet
  <2> QED BY <1>2, <1>6, <2>2, ExecutedStep
<1> HIDE DEF d
<1>8. CASE c.at < c.target
  <2>1. /\ d.at = c.at + 1 /\ c.at + 1 \in 1..3 /\ Migration(c) = upgrades[c.at + 1]
    BY <1>2, <1>3, <1>4, <1>6, <1>8, InMigration
  <2>2. Upto(d.at) = Upto(c.at) \cup Executed(c)
    <3> DEFINE i == c.at + 1
    <3>1. i \in 1..3 /\ i - 1 = c.at
      BY <1>3, <2>1
    <3> HIDE DEF i
    <3>2. Upto(i) = Upto(i - 1) \cup Objects(upgrades[i])
      BY <3>1, UpgradeFacts
    <3> QED BY <1>7, <2>1, <3>1, <3>2 DEF i
  <2>3. c.made \ Kept \subseteq Upto(d.at)
    BY <1>2, <1>8, <2>2 DEF Sight
  <2>4. ~(d.target < d.at) /\ (d.at < d.target => Executed(d) = {})
    BY <1>3, <1>4, <1>5, <1>8, <2>1
  <2> QED BY <1>1, <1>2, <1>4, <2>3, <2>4 DEF Sight
<1>9. CASE c.target < c.at
  <2>1. /\ d.at = c.at - 1 /\ c.at \in 1..3 /\ Migration(c) = downgrades[c.at]
        /\ c.target < f
    BY <1>2, <1>3, <1>4, <1>6, <1>9, InMigration
  <2>2. c.at \in {2, 3}
    BY <1>2, <1>4, <2>1 DEF CommandInv, Downgrading
  <2>3. /\ Upto(f) \ (Upto(c.at) \cup Kept) \subseteq c.dropped
        /\ c.dropped \cap Kept = {}
        /\ Executed(c) \ Kept \subseteq c.dropped
    BY <1>2, <1>9 DEF Sight
  <2>4. Upto(c.at) \ Kept \subseteq Upto(c.at - 1) \cup Executed(c)
    BY <1>7, <2>1, <2>2, DowngradeFacts
  <2>5. Upto(f) \ (Upto(d.at) \cup Kept) \subseteq d.dropped
    BY <1>4, <2>1, <2>3, <2>4
  <2>6. (c.dropped \ Kept) \cap Upto(c.at - 1) = {}
    BY <1>2, <1>6, <2>1, <2>2 DEF CommandInv, Downgrading
  <2>7. d.dropped \cap Upto(d.at) = {}
    BY <1>4, <2>1, <2>3, <2>6
  <2>8. ~(d.at < d.target) /\ (d.target < d.at => Executed(d) = {})
    BY <1>3, <1>4, <1>5, <1>9, <2>1
  <2> QED BY <1>1, <1>2, <1>4, <2>5, <2>7, <2>8 DEF Sight
<1> QED BY <1>3, <1>6, <1>8, <1>9

-----------------------------------------------------------------------------
(***************************************************************************)
(* A command fails only where it may.                                      *)
(***************************************************************************)

\* A command that fails does so where it may.
LEMMA RefusalAtMissingIndex ==
    ASSUME SightInv, NEW op \in Operators, Migrate(op) \/ UpdateVersion(op),
           refusal' # refusal
    PROVE  RefusedOnlyAtMissingIndex'
<1> DEFINE c == command[op]
           s == NextStatement(c)
<1>1. CommandInv(c, revision) /\ Sight(c, schema) /\ ~Finished(c)
  BY DEF SightInv, MigrationsInv, Migrate, UpdateVersion, Free
<1>1a. Fail(op)
  BY DEF Migrate, UpdateVersion, Proceed, Advance
<1>2. c.at \in 0..3 /\ c.target \in 0..3 /\ c.next \in Nat
  BY <1>1 DEF CommandInv, Shape
<1>3. SUFFICES ASSUME c.found.schema = schema, c.found.revision = revision
               PROVE  s = Drop(ix_source_record_tenant_id)
  <2>1. /\ refusal'.statement = s
        /\ refusal'.undisturbed = (c.found = [schema |-> schema, revision |-> revision])
    BY <1>1a DEF Fail
  <2>2. c.found = [schema |-> schema, revision |-> revision] =>
           c.found.schema = schema /\ c.found.revision = revision
    OBVIOUS
  <2> HIDE DEF c, s
  <2>3. refusal'.undisturbed => s = Drop(ix_source_record_tenant_id)
    BY <1>3, <2>1, <2>2
  <2> QED BY <2>1, <2>3 DEF RefusedOnlyAtMissingIndex
<1>4. Create(alembic_version).does = "create"
  BY DEF Create, Statement
<1>5. CASE s.does = "stamp"
  <2>1. RevisionSeen(c) # c.at
    BY <1>5 DEF Migrate, UpdateVersion, Advance
  <2>2. RevisionSeen(c) = c.at
    BY <1>1, <1>3 DEF CommandInv, Stamped, RevisionSeen
  <2> QED BY <2>1, <2>2
<1>6. CASE s.does # "stamp"
  <2>1. c.next = 0 \/ (c.at # c.target /\ c.next \in DOMAIN Migration(c))
    <3> SUFFICES ASSUME c.next # 0 PROVE c.at # c.target /\ c.next \in DOMAIN Migration(c)
      OBVIOUS
    <3>1. c.at # c.target
      BY <1>1, <1>2 DEF Finished
    <3>2. c.next <= Len(Migration(c))
      BY <1>6 DEF NextStatement, Stamp
    <3> QED BY <1>1, <1>2, <3>1, <3>2, InMigration
  <2>2. \/ Applicable(s, View(c))
        \/ s.does = "create if missing" /\ s.object \in View(c)
        \/ s = Drop(ix_source_record_tenant_id)
    BY <1>1, <1>3, <2>1, UndisturbedGoesOn DEF SightInv
  <2>3. ~Applicable(s, View(c)) /\ ~(s.does = "create if missing" /\ s.object \in View(c))
    BY <1>6 DEF Migrate, UpdateVersion, Proceed
  <2> QED BY <2>2, <2>3
<1> QED BY <1>5, <1>6

\* Every step keeps what the commands see.
LEMMA SightNext ==
    ASSUME SightInv, [Next]_vars
    PROVE  SightInv'
<1>1. MigrationsInv /\ MigrationsInv'
  BY MigrationsNext DEF SightInv
<1>2. RefusedOnlyAtMissingIndex'
  <2>1. CASE refusal' = refusal
    BY <2>1 DEF SightInv, RefusedOnlyAtMissingIndex
  <2>2. CASE refusal' # refusal
    <3>1. \E op \in Operators : Migrate(op) \/ UpdateVersion(op)
      BY <2>2 DEF Next, vars, Start, Commit, Abort
    <3> QED BY <2>2, <3>1, RefusalAtMissingIndex
  <2> QED BY <2>1, <2>2
<1>3. SUFFICES ASSUME NEW q \in Operators, command'[q] # None
               PROVE  Sight(command'[q], schema')
  BY <1>1, <1>2 DEF SightInv
<1>4. command[q] # None => Sight(command[q], schema)
  BY DEF SightInv
<1>5. CASE UNCHANGED vars
  BY <1>3, <1>4, <1>5 DEF vars
<1>6. ASSUME NEW op \in Operators, NEW target \in 0..head, Start(op, target)
      PROVE  Sight(command'[q], schema')
  <2>1. CASE q # op
    BY <1>1, <1>3, <1>4, <1>6, <2>1 DEF Start, MigrationsInv
  <2>2. CASE q = op
    <3> DEFINE d == command'[op]
    <3>1. /\ d.at = revision /\ d.target = target /\ d.made = {} /\ d.dropped = {}
          /\ d.next = IF alembic_version \in schema THEN 1 ELSE 0
          /\ d.found.schema = schema /\ d.found.revision = revision
          /\ schema' = schema /\ revision' = revision
      BY <1>1, <1>6 DEF Start, MigrationsInv
    <3>2. CommandInv(d, revision')
      BY <1>1, <1>3, <2>2 DEF MigrationsInv
    <3>3. d.at # d.target => Executed(d) = {}
      BY <3>1, <3>2, ExecutedStep
    <3>4. d.at \in Int /\ d.target \in Int
      BY <3>2 DEF CommandInv, Shape
    <3> HIDE DEF d
    <3>5. Sight(d, schema')
      BY <1>1, <3>1, <3>3, <3>4 DEF Sight, MigrationsInv
    <3> QED BY <2>2, <3>5 DEF d
  <2> QED BY <2>1, <2>2
<1>7. ASSUME NEW op \in Operators, Migrate(op)
      PROVE  Sight(command'[q], schema')
  <2>1. schema' = schema /\ command[op] # None
    BY <1>7 DEF Migrate, Proceed, Fail, Free
  <2>2. CASE q # op
    <3>1. command'[q] = command[q]
      BY <1>1, <1>7, <2>2 DEF Migrate, Proceed, Fail, MigrationsInv
    <3> QED BY <1>3, <1>4, <2>1, <3>1
  <2>3. CASE q = op
    BY <1>1, <1>3, <1>4, <1>7, <2>1, <2>3, SightMigrate
  <2> QED BY <2>2, <2>3
<1>8. ASSUME NEW op \in Operators, UpdateVersion(op)
      PROVE  Sight(command'[q], schema')
  <2>1. schema' = schema /\ revision' = revision /\ command[op] # None
    BY <1>8 DEF UpdateVersion, Advance, Fail, Free
  <2>2. CASE q # op
    <3>1. command'[q] = command[q]
      BY <1>1, <1>8, <2>2 DEF UpdateVersion, Advance, Fail, MigrationsInv
    <3> QED BY <1>3, <1>4, <2>1, <3>1
  <2>3. CASE q = op
    <3>1. ~Fail(op)
      BY <1>1, <1>3, <2>3 DEF Fail, MigrationsInv
    <3>2. Advance(op) /\ ~Finished(command[op]) /\ NextStatement(command[op]).does = "stamp"
      BY <1>8, <3>1 DEF UpdateVersion, Free
    <3>3. CommandInv(command'[op], revision)
      BY <1>1, <1>3, <2>1, <2>3 DEF MigrationsInv
    <3>4. Sight(command'[op], schema)
      BY <1>1, <1>3, <1>4, <2>1, <2>3, <3>2, <3>3, SightAdvance
    <3> QED BY <2>1, <2>3, <3>4
  <2> QED BY <2>2, <2>3
<1>9. ASSUME NEW op \in Operators, Commit(op)
      PROVE  Sight(command'[q], schema')
  <2>1. q # op /\ command'[q] = command[q]
    BY <1>1, <1>3, <1>9 DEF Commit, MigrationsInv
  <2>2. command[op] # None /\ command[op].dropped \cap Kept = {}
    BY <1>9 DEF Commit, SightInv, Sight
  <2>3. schema' = (schema \ command[op].dropped) \cup command[op].made
    BY <1>9 DEF Commit, View
  <2>4. schema \cap Kept \subseteq schema'
    BY <2>2, <2>3
  <2> QED BY <1>3, <1>4, <2>1, <2>4, SightStays
<1>10. ASSUME NEW op \in Operators, Abort(op)
       PROVE  Sight(command'[q], schema')
  <2>1. schema' = schema /\ q # op /\ command'[q] = command[q]
    BY <1>1, <1>3, <1>10 DEF Abort, MigrationsInv
  <2> QED BY <1>3, <1>4, <2>1
<1> QED BY <1>5, <1>6, <1>7, <1>8, <1>9, <1>10 DEF Next

\* A command that nobody disturbed, which sees at the end what it found at the start,
\* fails at one statement only, whatever revision it comes from or goes to: the
\* downgrade of 0001 drops an index that no upgrade created
\* (alembic/versions/0001_initial.py).
THEOREM RefusedAtMissingIndex == Spec => []RefusedOnlyAtMissingIndex
<1>1. Init => SightInv
  <2> SUFFICES ASSUME Init PROVE SightInv
    OBVIOUS
  <2>1. \A op \in Operators : command[op] = None
    BY DEF Init
  <2> QED BY <2>1, MigrationsInit DEF SightInv, Init, RefusedOnlyAtMissingIndex
<1>2. SightInv /\ [Next]_vars => SightInv'
  BY SightNext
<1>3. SightInv => RefusedOnlyAtMissingIndex
  BY DEF SightInv
<1> QED BY <1>1, <1>2, <1>3, PTL DEF Spec
=============================================================================

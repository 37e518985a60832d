----------------------------- MODULE Assertions -----------------------------
(***************************************************************************)
(* The commercial assertion: what the API accepts, what the table holds,   *)
(* and the SQL expressions of the assertion repository that compute on one *)
(* row.  Instants are integers; None is SQL NULL / Python None.            *)
(***************************************************************************)
EXTENDS Integers

CONSTANTS
    Tenants,        \* tenant_id
    AssertionIds,   \* assertion_id, chosen by the client
    Contents,       \* entity, attribute, value, unit, scope, provenance
    Instants,       \* the instants that timestamps and queries use
    None

AssertionStatus == {"candidate", "active", "superseded", "conflicted", "historical"}

\* The columns of the table, whatever was written there.
AssertionRecord ==
    [tenant_id : Tenants,
     assertion_id : AssertionIds,
     content : Contents,
     valid_from : Instants \cup {None},
     valid_to : Instants \cup {None},
     status : AssertionStatus,
     supersedes_assertion_id : AssertionIds \cup {None}]

ASSUME InstantsAssumption == Instants \subseteq Int /\ Instants # {}

ASSUME NoneAssumption ==
    /\ None \notin Int
    /\ None \notin AssertionIds
    /\ None \notin AssertionRecord

\* The validator of the schema, run on every request and again on every row
\* that find() turns back into a CommercialAssertion.
IntervalIsValid(a) ==
    a.valid_from # None /\ a.valid_to # None => a.valid_from < a.valid_to

CommercialAssertion == {a \in AssertionRecord : IntervalIsValid(a)}

\* uq_assertion_tenant_id.
AssertionKey == Tenants \X AssertionIds

KeyOf(a) == <<a.tenant_id, a.assertion_id>>

\* The row named by the WHERE clause of the superseding UPDATE.
TargetOf(a) == <<a.tenant_id, a.supersedes_assertion_id>>

-----------------------------------------------------------------------------

\* Faulty variants of ClosedAt: the plain overwrite a CASE-less UPDATE does,
\* and the status-only UPDATE that retrieval/postgres.py:106-115 still has.
ClosedAtLatest(valid_to, start) == start

ClosedAtNever(valid_to, start) == valid_to

\* The CASE of the UPDATE: an open or later end moves back to the start of the
\* superseding assertion, an end that is already earlier stays.
ClosedAt(valid_to, start) ==
    IF valid_to = None \/ valid_to > start THEN start ELSE valid_to

\* A faulty Supersede: a status outside the enumeration, which the column, a
\* plain string, would take.
SupersedeMisspelt(row, a) ==
    [row EXCEPT
        !.status = "supersede",
        !.valid_to = IF a.valid_from = None THEN @ ELSE ClosedAt(@, a.valid_from)]

\* What the UPDATE writes over a row that assertion a supersedes.
Supersede(row, a) ==
    [row EXCEPT
        !.status = "superseded",
        !.valid_to = IF a.valid_from = None THEN @ ELSE ClosedAt(@, a.valid_from)]

\* The half-open interval test of find() and of _relevant_to_context().
ValidAt(row, t) ==
    /\ row.valid_from = None \/ row.valid_from <= t
    /\ row.valid_to = None \/ t < row.valid_to
=============================================================================

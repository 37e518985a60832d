--------------------------- MODULE AssertionStore ---------------------------
(***************************************************************************)
(* PostgresAssertionRepository.put, run by several API workers at once     *)
(* (deploy/k8s.yaml starts two replicas): one READ COMMITTED transaction   *)
(* per call that inserts the assertion and then closes the one it names.   *)
(* A worker's uncommitted row versions are its row locks: an insert waits  *)
(* for an uncommitted version of its key, an update waits for one of a     *)
(* row it can see and overlooks a row it cannot see.                       *)
(***************************************************************************)
EXTENDS Assertions

CONSTANTS
    Workers,    \* the concurrent callers of put
    Requests    \* the assertions they submit

ASSUME RequestsAssumption == Requests \subseteq CommercialAssertion

VARIABLES
    table,      \* commercial_assertion: the committed row of each key, or None
    pc,         \* where each worker is inside put
    request,    \* the assertion each worker's current or last call submits
    writes,     \* the uncommitted row versions of each worker
    answer,     \* what each worker's last call returned
    known,      \* history: was the target committed when the call began?
    accepted    \* history: the committed calls, and whether the UPDATE hit

vars == <<table, pc, request, writes, answer, known, accepted>>

Nothing == [k \in AssertionKey |-> None]

Inserted(a) == [Nothing EXCEPT ![KeyOf(a)] = a]

LockedByAnother(w, k) == \E v \in Workers \ {w} : writes[v][k] # None

\* The version of row k that a statement of worker w sees.
Visible(w, k) == IF writes[w][k] # None THEN writes[w][k] ELSE table[k]

Supersedes(a) == a.supersedes_assertion_id # None

\* The UPDATE of worker w found a row.
Hit(w) ==
    /\ Supersedes(request[w])
    /\ writes[w][TargetOf(request[w])] # None

Entry(w) == [assertion |-> request[w], known |-> known[w], hit |-> Hit(w)]

-----------------------------------------------------------------------------

Init ==
    /\ table = Nothing
    /\ pc = [w \in Workers |-> "idle"]
    /\ request = [w \in Workers |-> None]
    /\ writes = [w \in Workers |-> Nothing]
    /\ answer = [w \in Workers |-> "none"]
    /\ known = [w \in Workers |-> FALSE]
    /\ accepted = {}

\* A call arrives and its transaction opens.
Begin(w, a) ==
    /\ pc[w] = "idle"
    /\ pc' = [pc EXCEPT ![w] = "insert"]
    /\ request' = [request EXCEPT ![w] = a]
    /\ answer' = [answer EXCEPT ![w] = "none"]
    /\ known' = [known EXCEPT ![w] = Supersedes(a) /\ table[TargetOf(a)] # None]
    /\ UNCHANGED <<table, writes, accepted>>

\* Faulty variants of InsertRow: no unique constraint to run into; the insert
\* committed in a transaction of its own, before the UPDATE.
InsertRowUnchecked(w) ==
    /\ pc[w] = "insert"
    /\ table[KeyOf(request[w])] = None
    /\ writes' = [writes EXCEPT ![w] = Inserted(request[w])]
    /\ pc' = [pc EXCEPT ![w] = IF Supersedes(request[w]) THEN "update" ELSE "commit"]
    /\ UNCHANGED <<table, request, answer, known, accepted>>

InsertRowAutocommit(w) ==
    /\ pc[w] = "insert"
    /\ ~LockedByAnother(w, KeyOf(request[w]))
    /\ table[KeyOf(request[w])] = None
    /\ table' = [table EXCEPT ![KeyOf(request[w])] = request[w]]
    /\ pc' = [pc EXCEPT ![w] = IF Supersedes(request[w]) THEN "update" ELSE "commit"]
    /\ UNCHANGED <<request, writes, answer, known, accepted>>

InsertRow(w) ==
    LET a == request[w] IN
    /\ pc[w] = "insert"
    /\ ~LockedByAnother(w, KeyOf(a))
    /\ table[KeyOf(a)] = None
    /\ writes' = [writes EXCEPT ![w] = Inserted(a)]
    /\ pc' = [pc EXCEPT ![w] = IF Supersedes(a) THEN "update" ELSE "commit"]
    /\ UNCHANGED <<table, request, answer, known, accepted>>

\* A faulty InsertConflict: it answers on an uncommitted row of its key.
InsertConflictEager(w) ==
    /\ pc[w] = "insert"
    /\ table[KeyOf(request[w])] # None \/ LockedByAnother(w, KeyOf(request[w]))
    /\ pc' = [pc EXCEPT ![w] = "idle"]
    /\ answer' = [answer EXCEPT ![w] = "duplicate"]
    /\ UNCHANGED <<table, request, writes, known, accepted>>

\* ON CONFLICT DO NOTHING: rowcount 0, return False.
InsertConflict(w) ==
    /\ pc[w] = "insert"
    /\ ~LockedByAnother(w, KeyOf(request[w]))
    /\ table[KeyOf(request[w])] # None
    /\ pc' = [pc EXCEPT ![w] = "idle"]
    /\ answer' = [answer EXCEPT ![w] = "duplicate"]
    /\ UNCHANGED <<table, request, writes, known, accepted>>

\* A faulty UpdateTarget: it reads the row without taking its lock.
UpdateTargetUnlocked(w) ==
    LET k == TargetOf(request[w]) IN
    /\ pc[w] = "update"
    /\ Visible(w, k) # None
    /\ writes' = [writes EXCEPT ![w][k] = Supersede(Visible(w, k), request[w])]
    /\ pc' = [pc EXCEPT ![w] = "commit"]
    /\ UNCHANGED <<table, request, answer, known, accepted>>

UpdateTarget(w) ==
    LET k == TargetOf(request[w]) IN
    /\ pc[w] = "update"
    /\ Visible(w, k) # None
    /\ ~LockedByAnother(w, k)
    /\ writes' = [writes EXCEPT ![w][k] = Supersede(Visible(w, k), request[w])]
    /\ pc' = [pc EXCEPT ![w] = "commit"]
    /\ UNCHANGED <<table, request, answer, known, accepted>>

\* Faulty variants of UpdateNothing: it passes over a locked row; it waits for
\* an uncommitted insert it cannot see.
UpdateNothingSkipLocked(w) ==
    LET k == TargetOf(request[w]) IN
    /\ pc[w] = "update"
    /\ Visible(w, k) = None \/ LockedByAnother(w, k)
    /\ pc' = [pc EXCEPT ![w] = "commit"]
    /\ UNCHANGED <<table, request, writes, answer, known, accepted>>

UpdateNothingWaits(w) ==
    LET k == TargetOf(request[w]) IN
    /\ pc[w] = "update"
    /\ Visible(w, k) = None
    /\ ~LockedByAnother(w, k)
    /\ pc' = [pc EXCEPT ![w] = "commit"]
    /\ UNCHANGED <<table, request, writes, answer, known, accepted>>

\* The WHERE clause matches nothing; the row count is not looked at.
UpdateNothing(w) ==
    /\ pc[w] = "update"
    /\ Visible(w, TargetOf(request[w])) = None
    /\ pc' = [pc EXCEPT ![w] = "commit"]
    /\ UNCHANGED <<table, request, writes, answer, known, accepted>>

\* The transaction commits; the caller may or may not hear of it.
Commit(w) ==
    /\ pc[w] = "commit"
    /\ table' = [k \in AssertionKey |-> Visible(w, k)]
    /\ writes' = [writes EXCEPT ![w] = Nothing]
    /\ accepted' = accepted \cup {Entry(w)}
    /\ pc' = [pc EXCEPT ![w] = "idle"]
    /\ \E heard \in {"created", "error"} : answer' = [answer EXCEPT ![w] = heard]
    /\ UNCHANGED <<request, known>>

\* The worker or its connection dies before the commit: everything rolls back.
Abort(w) ==
    /\ pc[w] # "idle"
    /\ writes' = [writes EXCEPT ![w] = Nothing]
    /\ pc' = [pc EXCEPT ![w] = "idle"]
    /\ answer' = [answer EXCEPT ![w] = "error"]
    /\ UNCHANGED <<table, request, known, accepted>>

Insert(w) == InsertRow(w) \/ InsertConflict(w)

Update(w) == UpdateTarget(w) \/ UpdateNothing(w)

Next ==
    \E w \in Workers :
        \/ \E a \in Requests : Begin(w, a)
        \/ Insert(w)
        \/ Update(w)
        \/ Commit(w)
        \/ Abort(w)

\* PostgreSQL queues the transactions that wait for a row and serves them in
\* order, so a statement that can run again and again eventually runs (SF);
\* COMMIT waits for nothing.  No call has to arrive and nothing has to fail.
Fairness ==
    \A w \in Workers :
        SF_vars(Insert(w)) /\ SF_vars(Update(w)) /\ WF_vars(Commit(w))

Spec == Init /\ [][Next]_vars

FairSpec == Spec /\ Fairness

-----------------------------------------------------------------------------

Answers == {"none", "created", "duplicate", "error"}

\* Every variable has the shape of what it stands for; a row of the table may
\* violate the interval validator, which the UPDATE bypasses.
TypeOK ==
    /\ table \in [AssertionKey -> AssertionRecord \cup {None}]
    /\ pc \in [Workers -> {"idle", "insert", "update", "commit"}]
    /\ request \in [Workers -> Requests \cup {None}]
    /\ writes \in [Workers -> [AssertionKey -> AssertionRecord \cup {None}]]
    /\ answer \in [Workers -> Answers]
    /\ known \in [Workers -> BOOLEAN]
    /\ accepted \subseteq [assertion : Requests, known : BOOLEAN, hit : BOOLEAN]

\* The committed calls whose UPDATE closed row k.
Closing(k) == {e \in accepted : e.hit /\ TargetOf(e.assertion) = k}

\* The uncommitted versions a call may hold: its own row, closed by itself when
\* it names itself, and its target as last committed, closed.
OwnVersions(w) ==
    LET a == request[w] IN
    \/ /\ writes[w] = Inserted(a)
       /\ Supersedes(a) => TargetOf(a) # KeyOf(a)
    \/ /\ Supersedes(a)
       /\ TargetOf(a) = KeyOf(a) \/ table[TargetOf(a)] # None
       /\ writes[w] =
            [Inserted(a) EXCEPT ![TargetOf(a)] =
                Supersede(IF TargetOf(a) = KeyOf(a) THEN a ELSE table[TargetOf(a)], a)]

\* No two transactions hold versions of one row, and what a transaction is about
\* to commit was computed from the row as it still is: nothing was committed
\* between the read of the UPDATE and the COMMIT.
RowLocksHold ==
    /\ \A v, w \in Workers : v # w =>
          \A k \in AssertionKey : writes[v][k] = None \/ writes[w][k] = None
    /\ \A w \in Workers :
          /\ pc[w] # "idle" => request[w] # None
          /\ pc[w] \in {"idle", "insert"} => writes[w] = Nothing
          /\ pc[w] = "update" =>
                writes[w] = Inserted(request[w]) /\ Supersedes(request[w])
          /\ pc[w] \in {"update", "commit"} => table[KeyOf(request[w])] = None
          /\ pc[w] = "commit" => OwnVersions(w)

\* A row's interval is what its author claimed, cut at the earliest start of
\* the committed calls that superseded it, in whatever order and however
\* interleaved they ran: an as-of query at t (find with at_time) sees the row
\* exactly when its author's interval holds t and no such start lies at or
\* before t.
AsOfCorrect ==
    \A e \in accepted : \A t \in Instants :
        ValidAt(table[KeyOf(e.assertion)], t) <=>
            /\ ValidAt(e.assertion, t)
            /\ \A c \in Closing(KeyOf(e.assertion)) :
                  c.assertion.valid_from = None \/ t < c.assertion.valid_from

\* The insert and the UPDATE of one call commit together or not at all: a row's
\* status differs from what its author wrote exactly when a committed call
\* superseded it, and every row belongs to a committed call.
SupersessionAtomic ==
    /\ \A e \in accepted :
          table[KeyOf(e.assertion)].status =
              IF Closing(KeyOf(e.assertion)) = {} THEN e.assertion.status
                                                 ELSE "superseded"
    /\ \A k \in AssertionKey :
          table[k] # None => \E e \in accepted : KeyOf(e.assertion) = k

\* One assertion per tenant and id wins, whoever else submits the id: no two
\* committed calls share a key.
OneCallPerKey ==
    \A d, e \in accepted : KeyOf(d.assertion) = KeyOf(e.assertion) => d = e

\* A call that begins when its target is already committed never loses the
\* supersession, whatever the other workers do meanwhile.
KnownTargetIsSuperseded ==
    \A e \in accepted :
        e.known => e.hit /\ table[TargetOf(e.assertion)].status = "superseded"

\* What put returned can be relied on: True means that this caller's assertion
\* is the committed one, False that a committed row has the id.
AnswersAreTrue ==
    \A w \in Workers :
        /\ answer[w] = "created" => \E e \in accepted : e.assertion = request[w]
        /\ answer[w] = "duplicate" => table[KeyOf(request[w])] # None

\* History is never rewritten: a committed row stays, keeps all its columns but
\* status and valid_to, is final once superseded, and its end only moves back.
HistoryIsKept ==
    \A k \in AssertionKey :
        table[k] # None =>
            /\ table'[k] # None
            /\ table'[k] = [table[k] EXCEPT !.status = table'[k].status,
                                            !.valid_to = table'[k].valid_to]
            /\ table'[k].status \in {table[k].status, "superseded"}
            /\ table[k].valid_to # None =>
                  /\ table'[k].valid_to # None
                  /\ table'[k].valid_to <= table[k].valid_to

HistoryNeverRewritten == [][HistoryIsKept]_vars

\* Row locks never leave the workers waiting on each other: a call that began
\* comes to an answer.
PutReturns == \A w \in Workers : (pc[w] # "idle") ~> (pc[w] = "idle")

\* Concurrent calls behave like calls that take effect in one step each.
Ledger == INSTANCE AssertionLedger WITH ledger <- table

ImplementsLedger == Ledger!Spec

-----------------------------------------------------------------------------

\* What tests/test_assertion_lifecycle.py expects of the pair it writes in
\* order, stated of every committed pair: the target of a committed call is
\* superseded.
SupersededTargetMarked ==
    \A e \in accepted :
        Supersedes(e.assertion) /\ table[TargetOf(e.assertion)] # None =>
            table[TargetOf(e.assertion)].status = "superseded"

\* What the validator of CommercialAssertion says, stated of the rows find()
\* rebuilds: valid_to is after valid_from.
StoredIntervalsValid ==
    \A k \in AssertionKey : table[k] # None => IntervalIsValid(table[k])
=============================================================================

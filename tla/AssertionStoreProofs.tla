------------------------ MODULE AssertionStoreProofs ------------------------
(***************************************************************************)
(* Proofs about the assertion repository, for any number of workers,       *)
(* requests, tenants and identifiers.                                      *)
(***************************************************************************)
EXTENDS AssertionStore, TLAPS

Row == AssertionRecord \cup {None}

\* Closing a row gives a row.
LEMMA SupersedeType ==
    ASSUME NEW row \in AssertionRecord, NEW a \in AssertionRecord
    PROVE  Supersede(row, a) \in AssertionRecord
BY DEF Supersede, ClosedAt, AssertionRecord, AssertionStatus

\* A request names two keys of the table: its own and, if it supersedes, its
\* target's.
LEMMA RequestFacts ==
    ASSUME NEW a \in Requests
    PROVE  /\ a \in AssertionRecord
           /\ a # None
           /\ KeyOf(a) \in AssertionKey
           /\ Supersedes(a) => TargetOf(a) \in AssertionKey
BY RequestsAssumption, NoneAssumption
   DEF CommercialAssertion, AssertionRecord, AssertionKey, KeyOf, TargetOf, Supersedes

\* The insert of a request is a well-typed set of row versions.
LEMMA InsertedType ==
    ASSUME NEW a \in Requests
    PROVE  Inserted(a) \in [AssertionKey -> Row]
BY RequestFacts DEF Inserted, Nothing, Row

-----------------------------------------------------------------------------

\* Type correctness of the repository and its transactions, together with the
\* fact that only an idle worker has no request.
TypeInv ==
    /\ TypeOK
    /\ \A w \in Workers : pc[w] # "idle" => request[w] # None

\* What a statement sees of a row is a row or nothing.
LEMMA VisibleType ==
    ASSUME TypeOK, NEW w \in Workers, NEW k \in AssertionKey
    PROVE  Visible(w, k) \in Row
BY DEF TypeOK, Visible, Row

\* Every step keeps the types.
LEMMA TypeStep == TypeInv /\ [Next]_vars => TypeInv'
<1> SUFFICES ASSUME TypeInv, [Next]_vars PROVE TypeInv'
  OBVIOUS
<1> USE DEF TypeInv, TypeOK, Answers
<1>1. ASSUME NEW w \in Workers, NEW a \in Requests, Begin(w, a) PROVE TypeInv'
  BY <1>1, RequestFacts DEF Begin, Supersedes
<1>2. ASSUME NEW w \in Workers, InsertRow(w) PROVE TypeInv'
  <2>1. request[w] \in Requests
    BY <1>2 DEF InsertRow
  <2> QED BY <1>2, <2>1, InsertedType DEF InsertRow, Row
<1>3. ASSUME NEW w \in Workers, InsertConflict(w) PROVE TypeInv'
  BY <1>3 DEF InsertConflict
<1>4. ASSUME NEW w \in Workers, UpdateTarget(w) PROVE TypeInv'
  <2> DEFINE k == TargetOf(request[w])
             new == Supersede(Visible(w, k), request[w])
  <2>1. request[w] \in Requests /\ request[w] \in AssertionRecord
    BY <1>4, RequestFacts DEF UpdateTarget
  <2>2. Visible(w, k) # None
    BY <1>4 DEF UpdateTarget
  <2>3. CASE k \in AssertionKey
    <3>1. new \in AssertionRecord
      BY <2>1, <2>2, <2>3, VisibleType, SupersedeType DEF Row
    <3> QED BY <1>4, <3>1 DEF UpdateTarget
  <2>4. CASE k \notin AssertionKey
    <3>1. writes' = writes
      BY <1>4, <2>4 DEF UpdateTarget
    <3> QED BY <1>4, <3>1 DEF UpdateTarget
  <2> QED BY <2>3, <2>4
<1>5. ASSUME NEW w \in Workers, UpdateNothing(w) PROVE TypeInv'
  BY <1>5 DEF UpdateNothing
<1>6. ASSUME NEW w \in Workers, Commit(w) PROVE TypeInv'
  <2>1. table' \in [AssertionKey -> Row]
    BY <1>6, VisibleType DEF Commit
  <2>2. writes' \in [Workers -> [AssertionKey -> Row]]
    BY <1>6 DEF Commit, Nothing, Row
  <2>3. request[w] \in Requests
    BY <1>6 DEF Commit
  <2>4. Entry(w) \in [assertion : Requests, known : BOOLEAN, hit : BOOLEAN]
    BY <2>3 DEF Entry, Hit
  <2>5. answer' \in [Workers -> Answers]
    BY <1>6 DEF Commit
  <2> QED BY <1>6, <2>1, <2>2, <2>4, <2>5 DEF Commit, Row
<1>7. ASSUME NEW w \in Workers, Abort(w) PROVE TypeInv'
  BY <1>7 DEF Abort, Nothing
<1>8. CASE UNCHANGED vars
  BY <1>8 DEF vars
<1> QED BY <1>1, <1>2, <1>3, <1>4, <1>5, <1>6, <1>7, <1>8 DEF Next, Insert, Update

\* Every state of the repository is well typed.
THEOREM TypeCorrect == Spec => []TypeOK
<1>1. Init => TypeInv
  BY DEF Init, TypeInv, TypeOK, Nothing, Answers
<1>2. TypeInv => TypeOK
  BY DEF TypeInv
<1> QED BY <1>1, <1>2, TypeStep, PTL DEF Spec

-----------------------------------------------------------------------------

LockInv == TypeInv /\ RowLocksHold

\* What the insert of a request writes, key by key.
LEMMA InsertedAt ==
    ASSUME NEW a \in Requests, NEW k \in AssertionKey
    PROVE  Inserted(a)[k] = IF k = KeyOf(a) THEN a ELSE None
BY RequestFacts DEF Inserted, Nothing

\* What RowLocksHold says of one worker, and of two.
PhaseOK(w) ==
    /\ pc[w] # "idle" => request[w] # None
    /\ pc[w] \in {"idle", "insert"} => writes[w] = Nothing
    /\ pc[w] = "update" =>
          writes[w] = Inserted(request[w]) /\ Supersedes(request[w])
    /\ pc[w] \in {"update", "commit"} => table[KeyOf(request[w])] = None
    /\ pc[w] = "commit" => OwnVersions(w)

Exclusive ==
    \A v, w \in Workers : v # w =>
       \A k \in AssertionKey : writes[v][k] = None \/ writes[w][k] = None

\* RowLocksHold, taken apart into those two.
LEMMA RowLocksHoldParts == RowLocksHold <=> Exclusive /\ \A w \in Workers : PhaseOK(w)
BY DEF RowLocksHold, Exclusive, PhaseOK

\* A step that touches neither the table nor worker v leaves v's part of
\* RowLocksHold alone.
LEMMA OthersUntouched ==
    ASSUME LockInv, NEW w \in Workers, NEW v \in Workers \ {w},
           table' = table, pc'[v] = pc[v], request'[v] = request[v],
           writes'[v] = writes[v]
    PROVE  PhaseOK(v)'
<1>1. PhaseOK(v)
  BY RowLocksHoldParts DEF LockInv
<1> QED BY <1>1 DEF PhaseOK, OwnVersions

\* Every step keeps the row locks: a version is made only of a row nobody else
\* holds, and a commit changes only rows its own call holds.
LEMMA LockStep == LockInv /\ [Next]_vars => LockInv'
<1> SUFFICES ASSUME LockInv, [Next]_vars PROVE LockInv'
  OBVIOUS
<1>0. TypeInv /\ TypeInv'
  BY TypeStep DEF LockInv
<1>P. Exclusive /\ \A w \in Workers : PhaseOK(w)
  BY RowLocksHoldParts DEF LockInv
<1> SUFFICES Exclusive' /\ \A w \in Workers : PhaseOK(w)'
  BY <1>0, RowLocksHoldParts DEF LockInv, RowLocksHold, Exclusive, PhaseOK
<1>1. ASSUME NEW w \in Workers, NEW a \in Requests, Begin(w, a)
      PROVE  Exclusive' /\ \A v \in Workers : PhaseOK(v)'
  <2>1. PhaseOK(w)'
    BY <1>1, <1>P, <1>0, RequestFacts DEF Begin, PhaseOK, TypeInv, TypeOK
  <2>2. \A v \in Workers \ {w} : PhaseOK(v)'
    BY <1>1, <1>0, OthersUntouched DEF Begin, TypeInv, TypeOK
  <2> QED BY <1>1, <1>P, <2>1, <2>2 DEF Begin, Exclusive
<1>2. ASSUME NEW w \in Workers, InsertRow(w)
      PROVE  Exclusive' /\ \A v \in Workers : PhaseOK(v)'
  <2>1. request[w] \in Requests
    BY <1>2, <1>0 DEF InsertRow, TypeInv, TypeOK
  <2>2. writes'[w] = Inserted(request[w])
    BY <1>2, <1>0 DEF InsertRow, TypeInv, TypeOK
  <2>3. PhaseOK(w)'
    BY <1>2, <1>0, <2>1, <2>2, RequestFacts
       DEF InsertRow, PhaseOK, OwnVersions, TypeInv, TypeOK
  <2>4. \A v \in Workers \ {w} : PhaseOK(v)'
    BY <1>2, <1>0, OthersUntouched DEF InsertRow, TypeInv, TypeOK
  <2>5. \A v \in Workers \ {w}, k \in AssertionKey :
            writes'[v] = writes[v] /\ (writes'[w][k] = None \/ writes[v][k] = None)
    BY <1>2, <1>0, <2>1, <2>2, InsertedAt DEF InsertRow, LockedByAnother, TypeInv, TypeOK
  <2>6. Exclusive'
    BY <1>P, <2>5 DEF Exclusive
  <2> QED BY <2>3, <2>4, <2>6
<1>3. ASSUME NEW w \in Workers, InsertConflict(w)
      PROVE  Exclusive' /\ \A v \in Workers : PhaseOK(v)'
  <2>1. PhaseOK(w)'
    BY <1>3, <1>P, <1>0 DEF InsertConflict, PhaseOK, TypeInv, TypeOK
  <2>2. \A v \in Workers \ {w} : PhaseOK(v)'
    BY <1>3, <1>0, OthersUntouched DEF InsertConflict, TypeInv, TypeOK
  <2> QED BY <1>3, <1>P, <2>1, <2>2 DEF InsertConflict, Exclusive
<1>4. ASSUME NEW w \in Workers, UpdateTarget(w)
      PROVE  Exclusive' /\ \A v \in Workers : PhaseOK(v)'
  <2> DEFINE a == request[w]
             k == TargetOf(a)
             new == Supersede(Visible(w, k), a)
  <2>1. a \in Requests /\ k \in AssertionKey /\ Supersedes(a)
    BY <1>4, <1>0, <1>P, RequestFacts DEF UpdateTarget, PhaseOK, TypeInv, TypeOK
  <2>2. writes[w] = Inserted(a) /\ table[KeyOf(a)] = None
    BY <1>4, <1>P DEF UpdateTarget, PhaseOK
  <2>3. Visible(w, k) = IF k = KeyOf(a) THEN a ELSE table[k]
    BY <2>1, <2>2, InsertedAt, RequestFacts DEF Visible
  <2>4. writes'[w] = [Inserted(a) EXCEPT ![k] = new]
    BY <1>4, <1>0, <2>2 DEF UpdateTarget, TypeInv, TypeOK
  <2>5. PhaseOK(w)'
    <3>1. pc'[w] = "commit" /\ request' = request /\ table' = table
      BY <1>4, <1>0 DEF UpdateTarget, TypeInv, TypeOK
    <3>2. OwnVersions(w)'
      BY <1>4, <2>1, <2>2, <2>3, <2>4, <3>1 DEF OwnVersions, UpdateTarget
    <3> QED BY <2>1, <2>2, <3>1, <3>2, RequestFacts DEF PhaseOK
  <2>6. \A v \in Workers \ {w} : PhaseOK(v)'
    BY <1>4, <1>0, OthersUntouched DEF UpdateTarget, TypeInv, TypeOK
  <2>7. \A v \in Workers \ {w} : writes'[v] = writes[v] /\ writes[v][k] = None
    BY <1>4, <1>0 DEF UpdateTarget, LockedByAnother, TypeInv, TypeOK
  <2>8. \A j \in AssertionKey : j # k => writes'[w][j] = writes[w][j]
    BY <2>1, <2>2, <2>4, InsertedType
  <2>9. Exclusive'
    BY <1>P, <2>7, <2>8 DEF Exclusive
  <2> QED BY <2>5, <2>6, <2>9
<1>5. ASSUME NEW w \in Workers, UpdateNothing(w)
      PROVE  Exclusive' /\ \A v \in Workers : PhaseOK(v)'
  <2>1. PhaseOK(w)'
    <3> DEFINE a == request[w]
    <3>1. a \in Requests /\ writes[w] = Inserted(a) /\ Supersedes(a)
      BY <1>5, <1>P, <1>0 DEF UpdateNothing, PhaseOK, TypeInv, TypeOK
    <3>2. Inserted(a)[KeyOf(a)] # None
      BY <3>1, InsertedAt, RequestFacts
    <3>3. TargetOf(a) # KeyOf(a)
      BY <1>5, <3>1, <3>2 DEF UpdateNothing, Visible
    <3> QED BY <1>5, <1>P, <1>0, <3>1, <3>3
            DEF UpdateNothing, PhaseOK, OwnVersions, TypeInv, TypeOK
  <2>2. \A v \in Workers \ {w} : PhaseOK(v)'
    BY <1>5, <1>0, OthersUntouched DEF UpdateNothing, TypeInv, TypeOK
  <2> QED BY <1>5, <1>P, <2>1, <2>2 DEF UpdateNothing, Exclusive
<1>6. ASSUME NEW w \in Workers, Commit(w)
      PROVE  Exclusive' /\ \A v \in Workers : PhaseOK(v)'
  <2>1. writes'[w] = Nothing /\ pc'[w] = "idle"
    BY <1>6, <1>0 DEF Commit, TypeInv, TypeOK
  <2>2. PhaseOK(w)'
    BY <2>1 DEF PhaseOK
  <2>3. ASSUME NEW v \in Workers \ {w} PROVE PhaseOK(v)'
    <3>1. /\ pc'[v] = pc[v] /\ writes'[v] = writes[v] /\ request' = request
          /\ \A k \in AssertionKey : table'[k] = Visible(w, k)
      BY <1>6, <1>0 DEF Commit, TypeInv, TypeOK
    <3>2. \A k \in AssertionKey : writes[v][k] # None => table'[k] = table[k]
      BY <1>P, <3>1 DEF Exclusive, Visible
    <3>3. PhaseOK(v)
      BY <1>P
    <3>4. CASE pc[v] \in {"idle", "insert"}
      BY <3>1, <3>3, <3>4 DEF PhaseOK
    <3>5. CASE pc[v] \in {"update", "commit"}
      <4> DEFINE a == request[v]
      <4>1. a \in Requests
        BY <3>3, <3>5, <1>0 DEF PhaseOK, TypeInv, TypeOK
      <4>2. KeyOf(a) \in AssertionKey /\ a # None
        BY <4>1, RequestFacts
      <4>3. Inserted(a)[KeyOf(a)] = a /\ Inserted(a) \in [AssertionKey -> Row]
        BY <4>1, <4>2, InsertedAt, InsertedType
      <4>4. writes[v][KeyOf(a)] # None
        <5>1. Supersede(a, a) # None
          BY <4>1, RequestFacts, SupersedeType, NoneAssumption
        <5> QED BY <3>3, <3>5, <4>2, <4>3, <5>1 DEF PhaseOK, OwnVersions
      <4>5. table'[KeyOf(a)] = None
        BY <3>2, <3>3, <3>5, <4>2, <4>4 DEF PhaseOK
      <4>6. OwnVersions(v) => OwnVersions(v)'
        <5>1. ASSUME Supersedes(a), TargetOf(a) # KeyOf(a), table[TargetOf(a)] # None,
                     writes[v] = [Inserted(a) EXCEPT
                                     ![TargetOf(a)] = Supersede(table[TargetOf(a)], a)]
              PROVE  table'[TargetOf(a)] = table[TargetOf(a)]
          <6>1. TargetOf(a) \in AssertionKey /\ a \in AssertionRecord
            BY <4>1, <5>1, RequestFacts
          <6>2. table[TargetOf(a)] \in AssertionRecord
            BY <1>0, <5>1, <6>1 DEF TypeInv, TypeOK
          <6>3. Supersede(table[TargetOf(a)], a) # None
            BY <6>1, <6>2, SupersedeType, NoneAssumption
          <6>4. writes[v][TargetOf(a)] # None
            BY <4>3, <5>1, <6>1, <6>3
          <6> QED BY <3>2, <6>1, <6>4
        <5> QED BY <3>1, <5>1 DEF OwnVersions
      <4> QED BY <3>1, <3>3, <3>5, <4>5, <4>6 DEF PhaseOK
    <3> QED BY <3>4, <3>5, <1>0 DEF TypeInv, TypeOK
  <2>4. Exclusive'
    BY <1>6, <1>0, <1>P, <2>1 DEF Commit, Exclusive, Nothing, TypeInv, TypeOK
  <2> QED BY <2>2, <2>3, <2>4
<1>7. ASSUME NEW w \in Workers, Abort(w)
      PROVE  Exclusive' /\ \A v \in Workers : PhaseOK(v)'
  <2>1. writes'[w] = Nothing /\ pc'[w] = "idle"
    BY <1>7, <1>0 DEF Abort, TypeInv, TypeOK
  <2>2. PhaseOK(w)'
    BY <2>1 DEF PhaseOK
  <2>3. \A v \in Workers \ {w} : PhaseOK(v)'
    BY <1>7, <1>0, OthersUntouched DEF Abort, TypeInv, TypeOK
  <2>4. Exclusive'
    BY <1>7, <1>0, <1>P, <2>1 DEF Abort, Exclusive, Nothing, TypeInv, TypeOK
  <2> QED BY <2>2, <2>3, <2>4
<1>8. CASE UNCHANGED vars
  BY <1>8, <1>P DEF vars, Exclusive, PhaseOK, OwnVersions
<1> QED BY <1>1, <1>2, <1>3, <1>4, <1>5, <1>6, <1>7, <1>8 DEF Next, Insert, Update

\* At first nobody holds anything.
LEMMA LockInit == Init => LockInv
<1>1. Init => TypeInv
  BY DEF Init, TypeInv, TypeOK, Nothing, Answers
<1> QED BY <1>1 DEF Init, LockInv, RowLocksHold, Nothing

\* No two calls ever hold versions of one row, and no call commits a version
\* computed from a row that has changed meanwhile.
THEOREM LocksHold == Spec => []RowLocksHold
<1>1. LockInv => RowLocksHold
  BY DEF LockInv
<1> QED BY <1>1, LockInit, LockStep, PTL DEF Spec

-----------------------------------------------------------------------------

\* What a commit does to the table: it adds the assertion and, if its UPDATE hit,
\* closes the target.
LEMMA CommitEffect ==
    ASSUME LockInv, NEW w \in Workers, Commit(w), NEW base,
           base = [table EXCEPT ![KeyOf(request[w])] = request[w]]
    PROVE  /\ request[w] \in Requests
           /\ table[KeyOf(request[w])] = None
           /\ ~Hit(w) => table' = base
           /\ Hit(w) =>
                /\ Supersedes(request[w])
                /\ base[TargetOf(request[w])] # None
                /\ table' = [base EXCEPT ![TargetOf(request[w])] =
                                Supersede(@, request[w])]
<1> DEFINE a == request[w]
           k == KeyOf(a)
           j == TargetOf(a)
<1> USE DEF LockInv, TypeInv, TypeOK
<1>1. a \in Requests /\ table[k] = None /\ OwnVersions(w)
  BY DEF Commit, RowLocksHold
<1>2. k \in AssertionKey /\ a \in AssertionRecord /\ a # None
  BY <1>1, RequestFacts
<1>3. base \in [AssertionKey -> Row] /\ base[k] = a
  BY <1>2 DEF Row
<1>4. Inserted(a) \in [AssertionKey -> Row]
  BY <1>1, InsertedType
<1>5. \A i \in AssertionKey : Inserted(a)[i] = IF i = k THEN a ELSE None
  BY <1>1, InsertedAt
<1>6. table' = [i \in AssertionKey |-> Visible(w, i)]
  BY DEF Commit
<1>7. CASE writes[w] = Inserted(a) /\ (Supersedes(a) => j # k)
  <2>1. ~Hit(w)
    BY <1>1, <1>5, <1>7, RequestFacts DEF Hit
  <2>2. \A i \in AssertionKey : Visible(w, i) = base[i]
    BY <1>2, <1>5, <1>7 DEF Visible
  <2>3. table' = base
    BY <1>3, <1>6, <2>2
  <2> QED BY <1>1, <2>1, <2>3
<1>8. CASE /\ Supersedes(a)
           /\ j = k \/ table[j] # None
           /\ writes[w] = [Inserted(a) EXCEPT ![j] =
                              Supersede(IF j = k THEN a ELSE table[j], a)]
  <2>1. j \in AssertionKey
    BY <1>1, <1>8, RequestFacts
  <2>2. base[j] = (IF j = k THEN a ELSE table[j]) /\ base[j] \in AssertionRecord
    BY <1>2, <1>8, <2>1
  <2>3. Supersede(base[j], a) # None
    BY <1>2, <2>2, SupersedeType, NoneAssumption
  <2>4. writes[w][j] = Supersede(base[j], a)
    BY <1>4, <1>8, <2>1, <2>2
  <2>5. \A i \in AssertionKey : i # j => writes[w][i] = IF i = k THEN a ELSE None
    BY <1>4, <1>5, <1>8
  <2>6. \A i \in AssertionKey :
            Visible(w, i) = IF i = j THEN Supersede(base[j], a) ELSE base[i]
    BY <1>2, <2>3, <2>4, <2>5 DEF Visible
  <2>7. table' = [base EXCEPT ![j] = Supersede(@, a)]
    BY <1>3, <1>6, <2>6
  <2>8. Hit(w)
    BY <1>8, <2>3, <2>4 DEF Hit
  <2>9. base[j] # None
    BY <2>2, NoneAssumption
  <2> QED BY <1>1, <1>8, <2>7, <2>8, <2>9
<1> QED BY <1>1, <1>7, <1>8 DEF OwnVersions

\* Only a commit changes the table.
LEMMA TableChanges ==
    ASSUME [Next]_vars
    PROVE  (table' = table /\ accepted' = accepted) \/ \E w \in Workers : Commit(w)
BY DEF Next, vars, Begin, Insert, InsertRow, InsertConflict, Update, UpdateTarget,
       UpdateNothing, Abort

\* The operators the ledger shares with the repository are the same ones.
LEMMA SharedOperators ==
    /\ Ledger!AssertionKey = AssertionKey
    /\ \A a : Ledger!KeyOf(a) = KeyOf(a) /\ Ledger!TargetOf(a) = TargetOf(a)
    /\ \A row, a : Ledger!Supersede(row, a) = Supersede(row, a)
<1>1. Ledger!AssertionKey = AssertionKey
  BY DEF Ledger!AssertionKey, AssertionKey
<1>2. \A a : Ledger!KeyOf(a) = KeyOf(a) /\ Ledger!TargetOf(a) = TargetOf(a)
  BY DEF Ledger!KeyOf, KeyOf, Ledger!TargetOf, TargetOf
<1>3. \A row, a : Ledger!Supersede(row, a) = Supersede(row, a)
  BY Zenon DEF Ledger!Supersede, Supersede, Ledger!ClosedAt, ClosedAt
<1> QED BY <1>1, <1>2, <1>3

\* The repository's transactions implement the atomic ledger: every commit is
\* one step of it and everything else is invisible in the table.
THEOREM LedgerImplemented == Spec => ImplementsLedger
<1>1. Init => Ledger!Init
  BY SharedOperators DEF Init, Ledger!Init, Nothing
<1>2. LockInv /\ [Next]_vars => [Ledger!Next]_table
  <2> SUFFICES ASSUME LockInv, [Next]_vars, NEW w \in Workers, Commit(w)
               PROVE  Ledger!Next
    BY TableChanges
  <2> DEFINE a == request[w]
             base == [table EXCEPT ![KeyOf(a)] = a]
  <2>1. a \in Requests /\ table[KeyOf(a)] = None
    BY CommitEffect
  <2>2. CASE ~Hit(w)
    <3>1. table' = base
      BY <2>2, CommitEffect
    <3>2. Ledger!Put(a)
      BY <2>1, <3>1, SharedOperators DEF Ledger!Put, Ledger!Recorded
    <3> QED BY <2>1, <3>2 DEF Ledger!Next
  <2>3. CASE Hit(w)
    <3>1. /\ Supersedes(a)
          /\ base[TargetOf(a)] # None
          /\ table' = [base EXCEPT ![TargetOf(a)] = Supersede(@, a)]
      BY <2>3, CommitEffect
    <3>2. Ledger!PutSuperseding(a)
      BY <2>1, <3>1, SharedOperators
         DEF Ledger!PutSuperseding, Ledger!Recorded, Supersedes
    <3> QED BY <2>1, <3>2 DEF Ledger!Next
  <2> QED BY <2>2, <2>3
<1> QED BY <1>1, <1>2, LockInit, LockStep, PTL DEF Spec, ImplementsLedger, Ledger!Spec

-----------------------------------------------------------------------------

\* What Supersede does to the columns, and to an as-of query.
LEMMA SupersedeColumns ==
    ASSUME NEW row \in AssertionRecord, NEW a \in AssertionRecord
    PROVE  /\ Supersede(row, a) =
                [row EXCEPT !.status = "superseded",
                            !.valid_to = Supersede(row, a).valid_to]
           /\ Supersede(row, a).status = "superseded"
           /\ row.valid_to # None =>
                /\ Supersede(row, a).valid_to # None
                /\ Supersede(row, a).valid_to <= row.valid_to
BY InstantsAssumption, NoneAssumption DEF Supersede, ClosedAt, AssertionRecord

\* One version of a row keeps the history of an earlier one.
Keeps(new, old) ==
    /\ new # None
    /\ new = [old EXCEPT !.status = new.status, !.valid_to = new.valid_to]
    /\ new.status \in {old.status, "superseded"}
    /\ old.valid_to # None => new.valid_to # None /\ new.valid_to <= old.valid_to

\* An unchanged row keeps its history.
LEMMA KeepsSame == ASSUME NEW row \in AssertionRecord PROVE Keeps(row, row)
<1>1. row = [row EXCEPT !.status = row.status, !.valid_to = row.valid_to]
  BY DEF AssertionRecord
<1>2. row.valid_to # None => row.valid_to \in Int
  BY InstantsAssumption DEF AssertionRecord
<1> QED BY <1>1, <1>2, NoneAssumption DEF Keeps

\* So does a superseded one.
LEMMA KeepsSuperseded ==
    ASSUME NEW row \in AssertionRecord, NEW a \in AssertionRecord
    PROVE  Keeps(Supersede(row, a), row)
<1>1. Supersede(row, a) # None
  BY SupersedeType, NoneAssumption
<1>2. Supersede(row, a) = [row EXCEPT !.status = Supersede(row, a).status,
                                      !.valid_to = Supersede(row, a).valid_to]
  BY SupersedeColumns
<1> QED BY <1>1, <1>2, SupersedeColumns DEF Keeps

\* An as-of query sees a superseded row as before, up to the start of the
\* superseding assertion.
LEMMA SupersedeValidAt ==
    ASSUME NEW row \in AssertionRecord, NEW a \in AssertionRecord, NEW t \in Instants
    PROVE  ValidAt(Supersede(row, a), t) <=>
              ValidAt(row, t) /\ (a.valid_from = None \/ t < a.valid_from)
BY InstantsAssumption, NoneAssumption
   DEF Supersede, ClosedAt, ValidAt, AssertionRecord

\* The committed calls that matter for a row: every one is in the table, and one
\* that hit found its target there.
HistoryInv ==
    /\ LockInv
    /\ \A e \in accepted :
          /\ table[KeyOf(e.assertion)] # None
          /\ e.hit => /\ Supersedes(e.assertion)
                      /\ table[TargetOf(e.assertion)] # None
    /\ AsOfCorrect
    /\ SupersessionAtomic
    /\ OneCallPerKey

\* How a commit changes row i of the table and the calls that closed it.
LEMMA CommitRow ==
    ASSUME HistoryInv, NEW w \in Workers, Commit(w), NEW i \in AssertionKey
    PROVE  LET a == request[w]
               before == IF i = KeyOf(a) THEN a ELSE table[i]
           IN  /\ Hit(w) /\ i = TargetOf(a) =>
                     /\ before \in AssertionRecord
                     /\ table'[i] = Supersede(before, a)
                     /\ Closing(i)' = Closing(i) \cup {Entry(w)}
               /\ ~(Hit(w) /\ i = TargetOf(a)) =>
                     /\ table'[i] = before
                     /\ Closing(i)' = Closing(i)
               /\ i = KeyOf(a) => Closing(i) = {}
<1> DEFINE a == request[w]
           base == [table EXCEPT ![KeyOf(a)] = a]
           before == IF i = KeyOf(a) THEN a ELSE table[i]
<1>0. LockInv /\ TypeOK
  BY DEF HistoryInv, LockInv, TypeInv
<1>1. a \in Requests /\ table[KeyOf(a)] = None
  BY <1>0, CommitEffect
<1>2. KeyOf(a) \in AssertionKey /\ a \in AssertionRecord
  BY <1>1, RequestFacts
<1>3. base \in [AssertionKey -> Row] /\ base[i] = before
  BY <1>0, <1>2 DEF TypeOK, Row
<1>4. accepted' = accepted \cup {Entry(w)} /\ request' = request
  BY DEF Commit
<1>5. Entry(w).assertion = a /\ Entry(w).hit = Hit(w)
  BY DEF Entry
<1>6. i = KeyOf(a) => Closing(i) = {}
  BY <1>1 DEF Closing, HistoryInv
<1>7. CASE Hit(w) /\ i = TargetOf(a)
  <2>1. /\ base[i] # None
        /\ table' = [base EXCEPT ![i] = Supersede(@, a)]
    BY <1>0, <1>7, CommitEffect
  <2>2. Closing(i)' = Closing(i) \cup {Entry(w)}
    BY <1>4, <1>5, <1>7 DEF Closing
  <2> QED BY <1>3, <1>6, <1>7, <2>1, <2>2 DEF Row
<1>8. CASE ~(Hit(w) /\ i = TargetOf(a))
  <2>1. table'[i] = base[i]
    <3>1. CASE ~Hit(w)
      BY <1>0, <3>1, CommitEffect
    <3>2. CASE Hit(w)
      <4>1. table' = [base EXCEPT ![TargetOf(a)] = Supersede(@, a)]
        BY <1>0, <3>2, CommitEffect
      <4> QED BY <1>3, <1>8, <3>2, <4>1
    <3> QED BY <3>1, <3>2
  <2>2. Closing(i)' = Closing(i)
    BY <1>4, <1>5, <1>8 DEF Closing
  <2> QED BY <1>3, <1>6, <1>8, <2>1, <2>2
<1> QED BY <1>7, <1>8

\* A commit keeps the history invariant: the new row is as its author wrote it,
\* or closed by its own call, and the target is cut once more.
LEMMA HistoryCommit ==
    ASSUME HistoryInv, LockInv', NEW w \in Workers, Commit(w)
    PROVE  HistoryInv'
<1> DEFINE a == request[w]
<1>0. TypeOK /\ LockInv
  BY DEF HistoryInv, LockInv, TypeInv
<1>1. a \in Requests /\ table[KeyOf(a)] = None
  BY <1>0, CommitEffect
<1>2. KeyOf(a) \in AssertionKey /\ a \in AssertionRecord /\ a # None
  BY <1>1, RequestFacts
<1>3. accepted' = accepted \cup {Entry(w)} /\ Entry(w).assertion = a
      /\ Entry(w).hit = Hit(w)
  BY DEF Commit, Entry
<1>4. \A e \in accepted : /\ e.assertion \in Requests
                          /\ KeyOf(e.assertion) \in AssertionKey
                          /\ KeyOf(e.assertion) # KeyOf(a)
                          /\ e.assertion \in AssertionRecord
  BY <1>0, <1>1, RequestFacts DEF HistoryInv, TypeOK
<1>5. \A i \in AssertionKey : table[i] # None \/ i = KeyOf(a) => table'[i] # None
  BY <1>2, CommitRow, SupersedeType, NoneAssumption
<1>6. \A e \in accepted' :
          /\ table'[KeyOf(e.assertion)] # None
          /\ e.hit => /\ Supersedes(e.assertion)
                      /\ table'[TargetOf(e.assertion)] # None
  <2>1. Hit(w) => Supersedes(a) /\ TargetOf(a) \in AssertionKey
                  /\ (TargetOf(a) = KeyOf(a) \/ table[TargetOf(a)] # None)
    <3> DEFINE base == [table EXCEPT ![KeyOf(a)] = a]
    <3>1. Hit(w) => Supersedes(a) /\ base[TargetOf(a)] # None
      BY <1>0, CommitEffect
    <3> QED BY <1>0, <1>1, <1>2, <3>1, RequestFacts DEF TypeOK
  <2>2. ASSUME NEW e \in accepted
        PROVE  /\ table'[KeyOf(e.assertion)] # None
               /\ e.hit => /\ Supersedes(e.assertion)
                           /\ table'[TargetOf(e.assertion)] # None
    BY <1>4, <1>5, <2>2, RequestFacts DEF HistoryInv
  <2> QED BY <1>2, <1>3, <1>5, <2>1, <2>2
<1>7. AsOfCorrect'
  <2> SUFFICES ASSUME NEW e \in accepted', NEW t \in Instants
               PROVE  ValidAt(table'[KeyOf(e.assertion)], t) <=>
                        /\ ValidAt(e.assertion, t)
                        /\ \A c \in Closing(KeyOf(e.assertion))' :
                              \/ c.assertion.valid_from = None
                              \/ t < c.assertion.valid_from
    BY DEF AsOfCorrect
  <2> DEFINE i == KeyOf(e.assertion)
             before == IF i = KeyOf(a) THEN a ELSE table[i]
             cut(S) == \A c \in S : \/ c.assertion.valid_from = None
                                    \/ t < c.assertion.valid_from
  <2>1. i \in AssertionKey
    BY <1>2, <1>3, <1>4
  <2>2. ValidAt(before, t) <=> ValidAt(e.assertion, t) /\ cut(Closing(i))
    <3>1. CASE e \in accepted
      BY <1>4, <3>1 DEF HistoryInv, AsOfCorrect
    <3>2. CASE e = Entry(w)
      BY <1>2, <1>3, <2>1, <3>2, CommitRow
    <3> QED BY <1>3, <3>1, <3>2
  <2>3. CASE Hit(w) /\ i = TargetOf(a)
    <3>1. /\ before \in AssertionRecord
          /\ table'[i] = Supersede(before, a)
          /\ Closing(i)' = Closing(i) \cup {Entry(w)}
      BY <2>1, <2>3, CommitRow
    <3>2. cut(Closing(i)') <=> /\ cut(Closing(i))
                               /\ a.valid_from = None \/ t < a.valid_from
      BY <1>3, <3>1
    <3>3. ValidAt(table'[i], t) <=>
             ValidAt(before, t) /\ (a.valid_from = None \/ t < a.valid_from)
      BY <1>2, <3>1, SupersedeValidAt
    <3> QED BY <2>2, <3>2, <3>3
  <2>4. CASE ~(Hit(w) /\ i = TargetOf(a))
    <3>1. table'[i] = before /\ Closing(i)' = Closing(i)
      BY <2>1, <2>4, CommitRow
    <3> QED BY <2>2, <3>1
  <2> QED BY <2>3, <2>4
<1>8. SupersessionAtomic'
  <2>1. ASSUME NEW e \in accepted'
        PROVE  table'[KeyOf(e.assertion)].status =
                  IF Closing(KeyOf(e.assertion))' = {} THEN e.assertion.status
                                                       ELSE "superseded"
    <3> DEFINE i == KeyOf(e.assertion)
               before == IF i = KeyOf(a) THEN a ELSE table[i]
    <3>1. i \in AssertionKey
      BY <1>2, <1>3, <1>4
    <3>2. before.status = IF Closing(i) = {} THEN e.assertion.status ELSE "superseded"
      <4>1. CASE e \in accepted
        BY <1>4, <4>1 DEF HistoryInv, SupersessionAtomic
      <4>2. CASE e = Entry(w)
        BY <1>2, <1>3, <3>1, <4>2, CommitRow
      <4> QED BY <1>3, <4>1, <4>2
    <3>3. CASE Hit(w) /\ i = TargetOf(a)
      <4>1. /\ before \in AssertionRecord
            /\ table'[i] = Supersede(before, a)
            /\ Closing(i)' = Closing(i) \cup {Entry(w)}
        BY <3>1, <3>3, CommitRow
      <4>2. table'[i].status = "superseded"
        BY <4>1 DEF Supersede, AssertionRecord
      <4> QED BY <4>1, <4>2
    <3>4. CASE ~(Hit(w) /\ i = TargetOf(a))
      <4>1. table'[i] = before /\ Closing(i)' = Closing(i)
        BY <3>1, <3>4, CommitRow
      <4> QED BY <3>2, <4>1
    <3> QED BY <3>3, <3>4
  <2>2. ASSUME NEW k \in AssertionKey, table'[k] # None
        PROVE  \E e \in accepted' : KeyOf(e.assertion) = k
    <3>1. CASE k = KeyOf(a)
      BY <1>3, <3>1
    <3>2. CASE k # KeyOf(a) /\ table[k] # None
      BY <1>3, <3>2 DEF HistoryInv, SupersessionAtomic
    <3>3. CASE k # KeyOf(a) /\ table[k] = None
      <4>1. ~(Hit(w) /\ k = TargetOf(a))
        BY <3>3, CommitRow, NoneAssumption
      <4>2. table'[k] = table[k]
        BY <3>3, <4>1, CommitRow
      <4> QED BY <2>2, <3>3, <4>2
    <3> QED BY <3>1, <3>2, <3>3
  <2> QED BY <2>1, <2>2 DEF SupersessionAtomic
<1>9. OneCallPerKey'
  BY <1>3, <1>4 DEF OneCallPerKey, HistoryInv
<1> QED BY <1>6, <1>7, <1>8, <1>9 DEF HistoryInv

\* Every step keeps it: all but a commit leave table and accepted alone.
LEMMA HistoryStep == HistoryInv /\ [Next]_vars => HistoryInv'
<1> SUFFICES ASSUME HistoryInv, [Next]_vars PROVE HistoryInv'
  OBVIOUS
<1>1. LockInv'
  BY LockStep DEF HistoryInv
<1>2. CASE \E w \in Workers : Commit(w)
  BY <1>1, <1>2, HistoryCommit
<1>3. CASE table' = table /\ accepted' = accepted
  BY <1>1, <1>3 DEF HistoryInv, AsOfCorrect, SupersessionAtomic, OneCallPerKey, Closing
<1> QED BY <1>2, <1>3, TableChanges

\* At first nothing is recorded.
LEMMA HistoryInit == Init => HistoryInv
BY LockInit DEF Init, HistoryInv, AsOfCorrect, SupersessionAtomic, OneCallPerKey,
   Nothing

\* An as-of query sees a row exactly when its author's interval holds the
\* instant and no committed correction starts at or before it.
THEOREM AsOfQueriesCorrect == Spec => []AsOfCorrect
<1>1. HistoryInv => AsOfCorrect
  BY DEF HistoryInv
<1> QED BY <1>1, HistoryInit, HistoryStep, PTL DEF Spec

\* The two statements of a call take effect together or not at all.
THEOREM SupersessionIsAtomic == Spec => []SupersessionAtomic
<1>1. HistoryInv => SupersessionAtomic
  BY DEF HistoryInv
<1> QED BY <1>1, HistoryInit, HistoryStep, PTL DEF Spec

\* Of all the calls that submit an id for a tenant one commits.
THEOREM OneCallWins == Spec => []OneCallPerKey
<1>1. HistoryInv => OneCallPerKey
  BY DEF HistoryInv
<1> QED BY <1>1, HistoryInit, HistoryStep, PTL DEF Spec

\* No step rewrites or removes what was recorded.
THEOREM HistoryIsNeverRewritten == Spec => HistoryNeverRewritten
<1>1. HistoryInv /\ [Next]_vars => [HistoryIsKept]_vars
  <2> SUFFICES ASSUME HistoryInv, [Next]_vars, NEW k \in AssertionKey, table[k] # None
               PROVE  Keeps(table'[k], table[k])
    BY DEF HistoryIsKept, Keeps
  <2>1. table[k] \in AssertionRecord
    BY DEF HistoryInv, LockInv, TypeInv, TypeOK
  <2>2. CASE table'[k] = table[k]
    BY <2>1, <2>2, KeepsSame
  <2>3. ASSUME NEW w \in Workers, Commit(w), table'[k] # table[k]
        PROVE  Keeps(table'[k], table[k])
    <3>1. request[w] \in Requests /\ k # KeyOf(request[w])
      BY <2>3, CommitEffect DEF HistoryInv
    <3>2. table'[k] = Supersede(table[k], request[w])
      BY <2>3, <3>1, CommitRow
    <3> QED BY <2>1, <3>1, <3>2, RequestFacts, KeepsSuperseded
  <2> QED BY <2>2, <2>3, TableChanges
<1> QED BY <1>1, HistoryInit, HistoryStep, PTL DEF Spec, HistoryNeverRewritten

-----------------------------------------------------------------------------

\* What a worker may say of its last call.
AnswerOK(w) ==
    /\ answer[w] = "created" => \E e \in accepted : e.assertion = request[w]
    /\ answer[w] = "duplicate" =>
          request[w] \in Requests /\ table[KeyOf(request[w])] # None

\* A call that knew its target when it began still sees it, and once past its
\* UPDATE it has closed it.
KnownOK(w) ==
    pc[w] # "idle" /\ known[w] =>
        /\ Supersedes(request[w])
        /\ table[TargetOf(request[w])] # None
        /\ pc[w] = "commit" => Hit(w)

CallInv ==
    /\ HistoryInv
    /\ \A w \in Workers : AnswerOK(w) /\ KnownOK(w)
    /\ \A e \in accepted : e.known => e.hit

\* No row and no committed call is ever lost.
LEMMA NothingLost ==
    ASSUME TypeOK, [Next]_vars
    PROVE  /\ accepted \subseteq accepted'
           /\ \A k \in AssertionKey : table[k] # None => table'[k] # None
<1>1. ASSUME NEW w \in Workers, Commit(w)
      PROVE  /\ accepted \subseteq accepted'
             /\ \A k \in AssertionKey : table[k] # None => table'[k] # None
  BY <1>1 DEF Commit, Visible
<1> QED BY <1>1, TableChanges

\* A step of worker w leaves what holds of another worker's call alone.
LEMMA OtherCalls ==
    ASSUME CallInv, [Next]_vars, NEW v \in Workers,
           pc'[v] = pc[v], request'[v] = request[v], known'[v] = known[v],
           answer'[v] = answer[v], writes'[v] = writes[v]
    PROVE  AnswerOK(v)' /\ KnownOK(v)'
<1>1. TypeOK /\ TypeInv /\ AnswerOK(v) /\ KnownOK(v)
  BY DEF CallInv, HistoryInv, LockInv, TypeInv
<1>2. AnswerOK(v)'
  BY <1>1, NothingLost, RequestFacts DEF AnswerOK
<1>3. KnownOK(v)'
  <2>1. pc[v] # "idle" => request[v] \in Requests
    BY <1>1 DEF TypeInv, TypeOK
  <2> QED BY <1>1, <2>1, NothingLost, RequestFacts DEF KnownOK, Hit
<1> QED BY <1>2, <1>3

\* Every step keeps the answers true and the known targets closed.
LEMMA CallStep == CallInv /\ [Next]_vars => CallInv'
<1> SUFFICES ASSUME CallInv, [Next]_vars PROVE CallInv'
  OBVIOUS
<1> DEFINE Fine == \A v \in Workers : AnswerOK(v) /\ KnownOK(v)
           Hits == \A e \in accepted : e.known => e.hit
<1>H. HistoryInv'
  BY HistoryStep DEF CallInv
<1>T. TypeOK /\ TypeInv /\ LockInv /\ Fine /\ Hits
  BY DEF CallInv, HistoryInv, LockInv, TypeInv
<1>R. \A w \in Workers : pc[w] # "idle" => request[w] \in Requests
  BY <1>T DEF TypeInv, TypeOK
<1>1. ASSUME NEW w \in Workers, NEW a \in Requests, Begin(w, a) PROVE Fine' /\ Hits'
  <2>1. \A v \in Workers \ {w} : AnswerOK(v)' /\ KnownOK(v)'
    BY <1>1, <1>T, OtherCalls DEF Begin, TypeOK
  <2>2. AnswerOK(w)'
    BY <1>1, <1>T DEF Begin, TypeOK, AnswerOK
  <2>3. KnownOK(w)'
    <3>1. known'[w] => Supersedes(a) /\ table[TargetOf(a)] # None
      BY <1>1, <1>T, Zenon DEF Begin, TypeOK
    <3> QED BY <1>1, <1>T, <3>1 DEF Begin, TypeOK, KnownOK
  <2> QED BY <1>1, <1>T, <2>1, <2>2, <2>3 DEF Begin
<1>2. ASSUME NEW w \in Workers, InsertRow(w) PROVE Fine' /\ Hits'
  <2>1. \A v \in Workers \ {w} : AnswerOK(v)' /\ KnownOK(v)'
    BY <1>2, <1>T, OtherCalls DEF InsertRow, TypeOK
  <2>2. AnswerOK(w)' /\ KnownOK(w)'
    BY <1>2, <1>T DEF InsertRow, TypeOK, AnswerOK, KnownOK
  <2> QED BY <1>2, <1>T, <2>1, <2>2 DEF InsertRow
<1>3. ASSUME NEW w \in Workers, InsertConflict(w) PROVE Fine' /\ Hits'
  <2>1. \A v \in Workers \ {w} : AnswerOK(v)' /\ KnownOK(v)'
    BY <1>3, <1>T, OtherCalls DEF InsertConflict, TypeOK
  <2>2. AnswerOK(w)' /\ KnownOK(w)'
    BY <1>3, <1>T, <1>R DEF InsertConflict, TypeOK, AnswerOK, KnownOK
  <2> QED BY <1>3, <1>T, <2>1, <2>2 DEF InsertConflict
<1>4. ASSUME NEW w \in Workers, UpdateTarget(w) PROVE Fine' /\ Hits'
  <2> DEFINE a == request[w]
             k == TargetOf(a)
  <2>1. \A v \in Workers \ {w} : AnswerOK(v)' /\ KnownOK(v)'
    BY <1>4, <1>T, OtherCalls DEF UpdateTarget, TypeOK
  <2>2. a \in Requests /\ a \in AssertionRecord /\ Supersedes(a) /\ k \in AssertionKey
    BY <1>4, <1>T, <1>R, RequestFacts DEF UpdateTarget, LockInv, RowLocksHold
  <2>3. Supersede(Visible(w, k), a) # None
    BY <1>4, <1>T, <2>2, VisibleType, SupersedeType, NoneAssumption
       DEF UpdateTarget, Row
  <2>4. writes'[w][k] = Supersede(Visible(w, k), a)
    BY <1>4, <1>T, <2>2 DEF UpdateTarget, TypeOK
  <2>5. AnswerOK(w)' /\ KnownOK(w)'
    BY <1>4, <1>T, <2>2, <2>3, <2>4 DEF UpdateTarget, TypeOK, AnswerOK, KnownOK, Hit
  <2> QED BY <1>4, <1>T, <2>1, <2>5 DEF UpdateTarget
<1>5. ASSUME NEW w \in Workers, UpdateNothing(w) PROVE Fine' /\ Hits'
  <2>1. \A v \in Workers \ {w} : AnswerOK(v)' /\ KnownOK(v)'
    BY <1>5, <1>T, OtherCalls DEF UpdateNothing, TypeOK
  <2>2. ~known[w]
    BY <1>5, <1>T DEF UpdateNothing, KnownOK, Visible
  <2>3. AnswerOK(w)' /\ KnownOK(w)'
    BY <1>5, <1>T, <2>2 DEF UpdateNothing, TypeOK, AnswerOK, KnownOK
  <2> QED BY <1>5, <1>T, <2>1, <2>3 DEF UpdateNothing
<1>6. ASSUME NEW w \in Workers, Commit(w) PROVE Fine' /\ Hits'
  <2>1. \A v \in Workers \ {w} : AnswerOK(v)' /\ KnownOK(v)'
    BY <1>6, <1>T, OtherCalls DEF Commit, TypeOK
  <2>2. AnswerOK(w)' /\ KnownOK(w)'
    <3>1. Entry(w) \in accepted' /\ Entry(w).assertion = request'[w]
      BY <1>6 DEF Commit, Entry
    <3>2. pc'[w] = "idle" /\ answer'[w] # "duplicate"
      BY <1>6, <1>T DEF Commit, TypeOK
    <3> QED BY <3>1, <3>2 DEF AnswerOK, KnownOK
  <2>3. Entry(w).known => Entry(w).hit
    BY <1>6, <1>T, Zenon DEF Commit, Entry, KnownOK
  <2>4. Hits'
    BY <1>6, <1>T, <2>3, Zenon DEF Commit
  <2> QED BY <2>1, <2>2, <2>4
<1>7. ASSUME NEW w \in Workers, Abort(w) PROVE Fine' /\ Hits'
  <2>1. \A v \in Workers \ {w} : AnswerOK(v)' /\ KnownOK(v)'
    BY <1>7, <1>T, OtherCalls DEF Abort, TypeOK
  <2>2. AnswerOK(w)' /\ KnownOK(w)'
    BY <1>7, <1>T DEF Abort, TypeOK, AnswerOK, KnownOK
  <2> QED BY <1>7, <1>T, <2>1, <2>2 DEF Abort
<1>8. ASSUME UNCHANGED vars PROVE Fine' /\ Hits'
  BY <1>8, <1>T DEF vars, AnswerOK, KnownOK, Hit
<1>9. Fine' /\ Hits'
  BY <1>1, <1>2, <1>3, <1>4, <1>5, <1>6, <1>7, <1>8 DEF Next, Insert, Update
<1> QED BY <1>H, <1>9 DEF CallInv

\* At first no call has been answered.
LEMMA CallInit == Init => CallInv
BY HistoryInit DEF Init, CallInv, AnswerOK, KnownOK

\* What put returned can be relied on.
THEOREM AnswersCanBeTrusted == Spec => []AnswersAreTrue
<1>1. CallInv => AnswersAreTrue
  BY DEF CallInv, AnswerOK, AnswersAreTrue
<1> QED BY <1>1, CallInit, CallStep, PTL DEF Spec

\* A supersession whose target was committed when the call began is never lost:
\* the UPDATE hit, so the target has a committed call that closed it.
THEOREM KnownTargetsAreSuperseded == Spec => []KnownTargetIsSuperseded
<1>1. CallInv => KnownTargetIsSuperseded
  <2> SUFFICES ASSUME CallInv, NEW e \in accepted, e.known
               PROVE  e.hit /\ table[TargetOf(e.assertion)].status = "superseded"
    BY DEF KnownTargetIsSuperseded
  <2>1. /\ e.hit
        /\ TargetOf(e.assertion) \in AssertionKey
        /\ table[TargetOf(e.assertion)] # None
    BY RequestFacts DEF CallInv, HistoryInv, LockInv, TypeInv, TypeOK
  <2>2. PICK d \in accepted : KeyOf(d.assertion) = TargetOf(e.assertion)
    BY <2>1 DEF CallInv, HistoryInv, SupersessionAtomic
  <2>3. Closing(KeyOf(d.assertion)) # {}
    BY <2>1, <2>2 DEF Closing
  <2> QED BY <2>1, <2>2, <2>3 DEF CallInv, HistoryInv, SupersessionAtomic
<1> QED BY <1>1, CallInit, CallStep, PTL DEF Spec
=============================================================================

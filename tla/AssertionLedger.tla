--------------------------- MODULE AssertionLedger ---------------------------
(***************************************************************************)
(* What PostgresAssertionRepository.put promises its callers: an assertion *)
(* is recorded once, and in the same step the assertion it names, when the *)
(* repository finds it, is closed.  Nobody sees one without the other.     *)
(***************************************************************************)
EXTENDS Assertions

CONSTANT Requests   \* the assertions clients may submit

VARIABLE ledger     \* assertion key -> row, or None

Init == ledger = [k \in AssertionKey |-> None]

Recorded(a) == [ledger EXCEPT ![KeyOf(a)] = a]

Put(a) ==
    /\ ledger[KeyOf(a)] = None
    /\ ledger' = Recorded(a)

PutSuperseding(a) ==
    /\ ledger[KeyOf(a)] = None
    /\ a.supersedes_assertion_id # None
    /\ Recorded(a)[TargetOf(a)] # None
    /\ ledger' = [Recorded(a) EXCEPT ![TargetOf(a)] = Supersede(@, a)]

Next == \E a \in Requests : Put(a) \/ PutSuperseding(a)

Spec == Init /\ [][Next]_ledger
=============================================================================

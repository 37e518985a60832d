-------------------------- MODULE MCAssertionStore --------------------------
(***************************************************************************)
(* AssertionStore for TLC: one contract term that is corrected several     *)
(* times, from a later and from an earlier date, next to conflicting       *)
(* copies of it and another tenant that uses the same identifiers.         *)
(***************************************************************************)
EXTENDS AssertionStore

CONSTANTS t1, t2, id1, id2, id3, original, other, w1, w2

MCInstants == 1..4

Assertion(tenant, id, content, from, to, target) ==
    [tenant_id |-> tenant, assertion_id |-> id, content |-> content,
     valid_from |-> from, valid_to |-> to, status |-> "active",
     supersedes_assertion_id |-> target]

First == Assertion(t1, id1, original, 1, None, None)
Bounded == Assertion(t1, id1, other, None, 3, None)
Correction == Assertion(t1, id2, original, 3, None, id1)
EarlierCorrection == Assertion(t1, id3, original, 2, None, id1)
OtherTenant == Assertion(t2, id2, original, 2, 4, id1)

\* It and the correction name each other.
Reverse == Assertion(t1, id1, other, 2, None, id2)

\* Three claims to one id, two corrections, another tenant with the same ids.
MCRequests == {First, Bounded, Reverse, Correction, EarlierCorrection, OtherTenant}

\* A correction that holds from the day its target did.
SameStart == Assertion(t1, id2, other, 1, None, id1)

MCSameStartRequests == {First, SameStart}

\* A term and its correction, submitted in either order.
MCPairRequests == {First, Correction}
=============================================================================

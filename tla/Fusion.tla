------------------------------- MODULE Fusion -------------------------------
(***************************************************************************)
(* Reciprocal Rank Fusion, the pure part of HybridRetrievalService.search. *)
(* A hit is its span id, a number.  Scores are exact fractions; the code   *)
(* adds floats, commutatively, so two hits with the same pair of ranks tie *)
(* there too.  Rounding may break other ties; no property depends on those. *)
(***************************************************************************)
EXTENDS Naturals, SequencesExt

CONSTANT rrf_k      \* 60 unless the service is built otherwise

ASSUME RrfAssumption == rrf_k \in Nat \ {0}

\* No caller passes a candidate_limit.
CandidateLimit(n) == Max({n * 3, 10})

\* LIMIT n, and the slice [:n].
Take(s, n) == SubSeq(s, 1, Min({n, Len(s)}))

\* The rank of a hit in a list of hits, 0 where it is missing.
Rank(hits, x) == IF Contains(hits, x) THEN CHOOSE i \in DOMAIN hits : hits[i] = x ELSE 0

\* Faulty variants of Score: the better rank counts alone; the dictionary is
\* overwritten by the second loop.
ScoreOfBest(a, b) ==
    [num |-> 1, den |-> rrf_k + IF a = 0 THEN b ELSE IF b = 0 \/ a < b THEN a ELSE b]

ScoreOverwritten(a, b) ==
    [num |-> 1, den |-> rrf_k + IF b = 0 THEN a ELSE b]

\* The score of a hit with these ranks, at least one of them not 0.
Score(a, b) ==
    IF b = 0 THEN [num |-> 1, den |-> rrf_k + a]
    ELSE IF a = 0 THEN [num |-> 1, den |-> rrf_k + b]
    ELSE [num |-> 2 * rrf_k + a + b, den |-> (rrf_k + a) * (rrf_k + b)]

Above(p, q) == p.num * q.den > q.num * p.den

\* A faulty Fuse: one list after the other, as if no hit could be in both.
FuseConcatenated(lexical, semantic) == lexical \o semantic

\* Another faulty one: only what both searches found.
FuseAgreed(lexical, semantic) == SelectSeq(lexical, LAMBDA x : Contains(semantic, x))

\* Sorted by score, best first, then by span id.
Fuse(lexical, semantic) ==
    LET found == ToSet(lexical) \cup ToSet(semantic)
        score == [x \in found |-> Score(Rank(lexical, x), Rank(semantic, x))]
        before(x, y) == \/ Above(score[x], score[y])
                        \/ ~Above(score[y], score[x]) /\ x < y
        place == [x \in found |-> Cardinality({y \in found : before(y, x)})]
    IN  [n \in 1..Cardinality(found) |-> CHOOSE x \in found : place[x] = n - 1]
=============================================================================

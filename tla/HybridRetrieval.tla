--------------------------- MODULE HybridRetrieval ---------------------------
(***************************************************************************)
(* HybridRetrievalService.search: two ranked searches, each a read of its  *)
(* own, and their fusion.                                                  *)
(***************************************************************************)
EXTENDS Integers, Fusion

CONSTANTS
    Limits,             \* the limits callers pass
    LexicalRankings,    \* what the two searches may answer
    SemanticRankings

ASSUME LimitsAssumption == Limits \subseteq Int

\* No search finds a span twice.
ASSUME RankingsAssumption ==
    \A r \in LexicalRankings \cup SemanticRankings : r \in Seq(Nat) /\ IsInjective(r)

VARIABLES limit, lexical_hits, semantic_hits, result, step

vars == <<limit, lexical_hits, semantic_hits, result, step>>

-----------------------------------------------------------------------------

Init ==
    /\ limit \in Limits
    /\ lexical_hits = <<>> /\ semantic_hits = <<>> /\ result = <<>>
    /\ step = "lexical"

\* A limit below 1 is a ValueError, before either search.
Refuse ==
    /\ step = "lexical" /\ limit < 1
    /\ step' = "raised"
    /\ UNCHANGED <<limit, lexical_hits, semantic_hits, result>>

LexicalSearch ==
    /\ step = "lexical" /\ limit >= 1
    /\ step' = "semantic"
    /\ \E r \in LexicalRankings : lexical_hits' = Take(r, CandidateLimit(limit))
    /\ UNCHANGED <<limit, semantic_hits, result>>

SemanticSearch ==
    /\ step = "semantic"
    /\ step' = "fuse"
    /\ \E r \in SemanticRankings : semantic_hits' = Take(r, CandidateLimit(limit))
    /\ UNCHANGED <<limit, lexical_hits, result>>

FuseHits ==
    /\ step = "fuse"
    /\ step' = "done"
    /\ result' = Take(Fuse(lexical_hits, semantic_hits), limit)
    /\ UNCHANGED <<limit, lexical_hits, semantic_hits>>

Next == Refuse \/ LexicalSearch \/ SemanticSearch \/ FuseHits

Spec == Init /\ [][Next]_vars

-----------------------------------------------------------------------------

Candidates == ToSet(lexical_hits) \cup ToSet(semantic_hits)

\* Hit x comes before hit y in the answer, or y did not get into it.
Precedes(x, y) ==
    /\ Contains(result, x) \/ ~Contains(result, y)
    /\ Contains(result, x) /\ Contains(result, y) => Rank(result, x) < Rank(result, y)

\* The better of two ranks, where 0 means not found.
Better(a, b) == a # 0 /\ (b = 0 \/ a < b)

\* A hit that both searches place at least as well as another, and one of them
\* better, is never placed after it.
DominantFirst ==
    step = "done" =>
        \A x, y \in Candidates :
            LET a == Rank(lexical_hits, x)  b == Rank(lexical_hits, y)
                c == Rank(semantic_hits, x) d == Rank(semantic_hits, y)
            IN (a = b \/ Better(a, b)) /\ (c = d \/ Better(c, d)) /\ x # y
                   /\ (a # b \/ c # d)
               => Precedes(x, y)

\* What fusion is for: a hit both searches found comes before every hit only one
\* of them found, as long as neither list is longer than rrf_k + 1.
AgreementWins ==
    step = "done" =>
        \A x \in ToSet(lexical_hits) \cap ToSet(semantic_hits) :
            \A y \in Candidates \ (ToSet(lexical_hits) \cap ToSet(semantic_hits)) :
                Precedes(x, y)

\* The answer is as long as the limit and the candidates allow, without a span
\* found twice.
AnswerFull ==
    step = "done" =>
        /\ Cardinality(ToSet(result)) = Len(result)
        /\ Len(result) = IF limit < Cardinality(Candidates) THEN limit
                                                          ELSE Cardinality(Candidates)
=============================================================================

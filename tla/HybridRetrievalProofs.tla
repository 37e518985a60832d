----------------------- MODULE HybridRetrievalProofs -----------------------
(***************************************************************************)
(* Proofs about hybrid retrieval, for any rankings, limits and rrf_k.      *)
(***************************************************************************)
EXTENDS HybridRetrieval, ContextCompilerProofs

\* A search is made with a limit that was not refused; each list of hits is a
\* ranking cut to the candidates, and the answer is their fusion cut to the limit.
SearchInv ==
    /\ limit \in Limits
    /\ step \in {"lexical", "semantic", "fuse", "done", "raised"}
    /\ step \in {"semantic", "fuse", "done"} => limit >= 1
    /\ lexical_hits \in Seq(Nat) /\ Len(lexical_hits) <= CandidateLimit(limit)
    /\ semantic_hits \in Seq(Nat) /\ Len(semantic_hits) <= CandidateLimit(limit)
    /\ step = "done" => result = Take(Fuse(lexical_hits, semantic_hits), limit)

\* A limit gives a number of candidates.
LEMMA LimitFacts ==
    ASSUME NEW n \in Limits
    PROVE  n \in Int /\ CandidateLimit(n) \in Nat
<1>1. n \in Int /\ n * 3 \in Int /\ 10 \in Int
  BY LimitsAssumption
<1>2. Max({n * 3, 10}) = IF n * 3 <= 10 THEN 10 ELSE n * 3
  BY <1>1, MinMax
<1>3. CandidateLimit(n) \in Nat
  BY <1>1, <1>2 DEF CandidateLimit
<1> QED BY <1>1, <1>3

\* The invariant holds at first and in every step.
LEMMA SearchStart == Init => SearchInv
<1> SUFFICES ASSUME Init PROVE SearchInv
  OBVIOUS
<1>1. <<>> \in Seq(Nat) /\ Len(<<>>) = 0 /\ CandidateLimit(limit) \in Nat
  BY LimitFacts DEF Init
<1> QED BY <1>1 DEF Init, SearchInv

\* The invariant is kept by both searches and by the fusion.
LEMMA SearchStep == SearchInv /\ [Next]_vars => SearchInv'
<1> SUFFICES ASSUME SearchInv, [Next]_vars PROVE SearchInv'
  OBVIOUS
<1>0. CandidateLimit(limit) \in Nat /\ limit \in Int
  BY LimitFacts DEF SearchInv
<1>1. CASE LexicalSearch
  <2>1. PICK r \in LexicalRankings : lexical_hits' = Take(r, CandidateLimit(limit))
    BY <1>1 DEF LexicalSearch
  <2>2. r \in Seq(Nat)
    BY RankingsAssumption
  <2> QED BY <1>0, <1>1, <2>1, <2>2, TakeFacts DEF LexicalSearch, SearchInv
<1>2. CASE SemanticSearch
  <2>1. PICK r \in SemanticRankings : semantic_hits' = Take(r, CandidateLimit(limit))
    BY <1>2 DEF SemanticSearch
  <2>2. r \in Seq(Nat)
    BY RankingsAssumption
  <2> QED BY <1>0, <1>2, <2>1, <2>2, TakeFacts DEF SemanticSearch, SearchInv
<1>3. CASE FuseHits
  BY <1>3 DEF FuseHits, SearchInv
<1>4. CASE Refuse
  BY <1>4 DEF Refuse, SearchInv
<1>5. CASE UNCHANGED vars
  BY <1>5 DEF vars, SearchInv
<1> QED BY <1>1, <1>2, <1>3, <1>4, <1>5 DEF Next

-----------------------------------------------------------------------------

\* The answer is the beginning of the order by scores.
LEMMA ResultFacts ==
    ASSUME SearchInv, step = "done"
    PROVE  LET l == lexical_hits  s == semantic_hits
               n == Cardinality(Candidates)
               m == IF limit < n THEN limit ELSE n
               f == Fuse(l, s)
           IN  /\ Candidates = Found(l, s) /\ Candidates \subseteq Nat
               /\ IsFiniteSet(Candidates) /\ n \in Nat /\ m \in 0..n
               /\ result \in Seq(Nat) /\ Len(result) = m
               /\ \A i \in 1..m : result[i] = f[i]
               /\ \A i, j \in 1..n : f[i] = f[j] => i = j
               /\ \A x \in Candidates : \E i \in 1..n : f[i] = x
               /\ \A i \in 1..n : f[i] \in Candidates
               /\ \A i, j \in 1..n : Before(l, s, f[i], f[j]) => i < j
<1> DEFINE l == lexical_hits  s == semantic_hits  n == Cardinality(Candidates)
           f == Fuse(l, s)
<1>1. l \in Seq(Nat) /\ s \in Seq(Nat) /\ limit \in Nat /\ result = Take(f, limit)
  BY LimitFacts DEF SearchInv
<1>2. Candidates = Found(l, s)
  BY DEF Candidates, Found
<1>3. Candidates \subseteq Nat
  BY <1>1, <1>2, RankFacts DEF Found
<1>4. /\ IsFiniteSet(Candidates) /\ n \in Nat
      /\ f \in Seq(Candidates) /\ Len(f) = n
      /\ \A i, j \in 1..n : f[i] = f[j] => i = j
      /\ \A x \in Candidates : \E i \in 1..n : f[i] = x
      /\ \A i, j \in 1..n : Before(l, s, f[i], f[j]) => i < j
  BY <1>1, <1>2, FuseOrders
<1> HIDE DEF n, f
<1>5. \A i \in 1..n : f[i] \in Candidates
  BY <1>4, ElementOfSeq
<1>6. f \in Seq(Nat)
  BY <1>3, <1>4, <1>5, SeqMonotonic
<1>7. /\ result \in Seq(Nat) /\ Len(result) = IF limit <= n THEN limit ELSE n
      /\ \A i \in 1..Len(result) : result[i] = f[i]
  BY <1>1, <1>4, <1>6, TakeFacts
<1> QED BY <1>1, <1>2, <1>3, <1>4, <1>5, <1>7 DEF n, f

\* A candidate that is before another in the order precedes it in the answer.
LEMMA BeforePrecedes ==
    ASSUME SearchInv, step = "done", NEW x \in Candidates, NEW y \in Candidates,
           Before(lexical_hits, semantic_hits, x, y)
    PROVE  Precedes(x, y)
<1> DEFINE l == lexical_hits  s == semantic_hits
           n == Cardinality(Candidates)
           m == IF limit < n THEN limit ELSE n
           f == Fuse(l, s)
<1>1. /\ n \in Nat /\ m \in 0..n
      /\ result \in Seq(Nat) /\ Len(result) = m
      /\ \A i \in 1..m : result[i] = f[i]
      /\ \A i, j \in 1..n : f[i] = f[j] => i = j
      /\ \A i, j \in 1..n : Before(l, s, f[i], f[j]) => i < j
  BY ResultFacts
<1>2. PICK i \in 1..n, j \in 1..n : f[i] = x /\ f[j] = y
  BY ResultFacts
<1> HIDE DEF n, m, f
<1>3. i < j
  BY <1>1, <1>2
<1>4. \A z : Contains(result, z) => Rank(result, z) \in 1..m /\ f[Rank(result, z)] = z
  BY <1>1, RankFacts
<1>5. Contains(result, y) => Rank(result, y) = j
  BY <1>1, <1>2, <1>4
<1>6. Contains(result, x) => Rank(result, x) = i
  BY <1>1, <1>2, <1>4
<1>7. Contains(result, y) => Contains(result, x)
  <2> SUFFICES ASSUME Contains(result, y) PROVE Contains(result, x)
    OBVIOUS
  <2>1. i \in 1..m
    BY <1>1, <1>3, <1>4, <1>5
  <2> QED BY <1>1, <1>2, <2>1 DEF Contains
<1> QED BY <1>3, <1>5, <1>6, <1>7 DEF Precedes

\* A hit that both searches place at least as well as another, and one of them
\* better, is never placed after it, whatever the limit cuts off.
THEOREM DominantHitsFirst == Spec => []DominantFirst
<1>1. SearchInv => DominantFirst
  <2> SUFFICES ASSUME SearchInv, step = "done", NEW x \in Candidates, NEW y \in Candidates,
                      LET a == Rank(lexical_hits, x)  b == Rank(lexical_hits, y)
                          c == Rank(semantic_hits, x) d == Rank(semantic_hits, y)
                      IN (a = b \/ Better(a, b)) /\ (c = d \/ Better(c, d)) /\ x # y
                             /\ (a # b \/ c # d)
               PROVE  Precedes(x, y)
    BY DEF DominantFirst
  <2> DEFINE a == Rank(lexical_hits, x)  b == Rank(lexical_hits, y)
             c == Rank(semantic_hits, x) d == Rank(semantic_hits, y)
  <2>1. /\ a \in Nat /\ b \in Nat /\ c \in Nat /\ d \in Nat
        /\ b # 0 \/ d # 0
    BY RankFacts DEF SearchInv, Candidates
  <2>2. /\ a = b \/ (a # 0 /\ (b = 0 \/ a < b))
        /\ c = d \/ (c # 0 /\ (d = 0 \/ c < d))
        /\ a # b \/ c # d
    BY DEF Better
  <2> HIDE DEF a, b, c, d
  <2>3. Above(Score(a, c), Score(b, d))
    BY <2>1, <2>2, ScoreDominant
  <2>4. Before(lexical_hits, semantic_hits, x, y)
    BY <2>3 DEF Before, ScoreOf, a, b, c, d
  <2> QED BY <2>4, BeforePrecedes
<1> QED BY <1>1, SearchStart, SearchStep, PTL DEF Spec

\* As long as neither search is asked for more than rrf_k + 1 candidates, a hit
\* that both found comes before every hit that only one of them found.
THEOREM AgreementAlwaysWins ==
    ASSUME \A n \in Limits : CandidateLimit(n) <= rrf_k + 1
    PROVE  Spec => []AgreementWins
<1>1. SearchInv => AgreementWins
  <2> SUFFICES ASSUME SearchInv, step = "done",
                      NEW x \in ToSet(lexical_hits) \cap ToSet(semantic_hits),
                      NEW y \in Candidates \ (ToSet(lexical_hits) \cap ToSet(semantic_hits))
               PROVE  Precedes(x, y)
    BY DEF AgreementWins
  <2> DEFINE a == Rank(lexical_hits, x)  b == Rank(semantic_hits, x)
             c == Rank(lexical_hits, y)  d == Rank(semantic_hits, y)
  <2>0. rrf_k \in Nat /\ limit \in Limits /\ CandidateLimit(limit) \in Nat
        /\ CandidateLimit(limit) <= rrf_k + 1
    BY RrfAssumption, LimitFacts DEF SearchInv
  <2>1. /\ a \in 1..Len(lexical_hits) /\ b \in 1..Len(semantic_hits)
        /\ Len(lexical_hits) \in Nat /\ Len(semantic_hits) \in Nat
    BY RankFacts, LenProperties DEF SearchInv
  <2>2. a \in 1..(rrf_k + 1) /\ b \in 1..(rrf_k + 1)
    BY <2>0, <2>1 DEF SearchInv
  <2>3. /\ c \in Nat /\ d \in Nat
        /\ (c = 0 /\ d # 0) \/ (c # 0 /\ d = 0)
    BY RankFacts DEF SearchInv, Candidates
  <2>4. Above(Score(a, b), Score(c, d))
    <3> HIDE DEF a, b, c, d
    <3>1. CASE d = 0
      BY <2>2, <2>3, <3>1, ScoreAgreed
    <3>2. CASE c = 0
      <4>1. Score(c, d) = Score(d, 0)
        BY <2>3, <3>2, ScoreSymmetric
      <4> QED BY <2>2, <2>3, <3>2, <4>1, ScoreAgreed
    <3> QED BY <2>3, <3>1, <3>2
  <2>5. Before(lexical_hits, semantic_hits, x, y)
    BY <2>4 DEF Before, ScoreOf
  <2> QED BY <2>5, BeforePrecedes DEF Candidates
<1> QED BY <1>1, SearchStart, SearchStep, PTL DEF Spec

\* The answer has every candidate there is room for, and none twice.
THEOREM AnswersAreFull == Spec => []AnswerFull
<1>1. SearchInv => AnswerFull
  <2> SUFFICES ASSUME SearchInv, step = "done"
               PROVE  /\ Cardinality(ToSet(result)) = Len(result)
                      /\ Len(result) = IF limit < Cardinality(Candidates)
                                       THEN limit ELSE Cardinality(Candidates)
    BY DEF AnswerFull
  <2> DEFINE n == Cardinality(Candidates)
             m == IF limit < n THEN limit ELSE n
             f == Fuse(lexical_hits, semantic_hits)
  <2>1. /\ n \in Nat /\ m \in 0..n
        /\ result \in Seq(Nat) /\ Len(result) = m
        /\ \A i \in 1..m : result[i] = f[i]
        /\ \A i, j \in 1..n : f[i] = f[j] => i = j
    BY ResultFacts
  <2>2. \A i, j \in 1..m : result[i] = result[j] => i = j
    <3> HIDE DEF n, m, f
    <3> QED BY <2>1
  <2>3. DOMAIN result = 1..m /\ m \in Nat
    BY <2>1, LenProperties
  <2> HIDE DEF n, m, f
  <2>4. result \in Bijection(1..m, ToSet(result))
    BY <2>2, <2>3, <2>1, LenProperties
       DEF Bijection, Injection, Surjection, IsInjective, ToSet
  <2>5. Cardinality(ToSet(result)) = m
    BY <2>3, <2>4, FS_CountingElements DEF ExistsBijection
  <2> QED BY <2>1, <2>5 DEF m, n
<1> QED BY <1>1, SearchStart, SearchStep, PTL DEF Spec
=============================================================================

------------------------ MODULE ContextCompilerProofs ------------------------
(***************************************************************************)
(* The pure parts of retrieval and compilation, for any input: what Fuse   *)
(* returns, the slices and orderings of SQL, the merge of the evidence and *)
(* the paths of the graph.                                                 *)
(***************************************************************************)
EXTENDS ContextCompiler, FiniteSetTheorems, SequenceTheorems, TLAPS

\* Products of natural numbers, as the scores compare them.
LEMMA Products ==
    ASSUME NEW a \in Nat, NEW b \in Nat, NEW c \in Nat
    PROVE  /\ a * b \in Nat /\ a * b = b * a
           /\ (a + b) * c = a * c + b * c
           /\ a * b * c = a * (b * c)
           /\ a <= b => a * c <= b * c
           /\ a < b /\ c > 0 => a * c < b * c
           /\ a * c < b * c => a < b
<1>1. a * b \in Nat /\ a * b = b * a /\ (a + b) * c = a * c + b * c
  OBVIOUS
<1>2. a * b * c = a * (b * c)
  OBVIOUS
<1>3. ASSUME a <= b PROVE a * c <= b * c
  <2>1. PICK d \in Nat : b = a + d
    <3>1. b - a \in Nat /\ b = a + (b - a)
      BY <1>3
    <3> QED BY <3>1
  <2>2. b * c = a * c + d * c /\ d * c \in Nat /\ a * c \in Nat
    BY <2>1
  <2> QED BY <2>2
<1>4. ASSUME a < b, c > 0 PROVE a * c < b * c
  <2>1. PICK d \in Nat \ {0} : b = a + d
    <3>1. b - a \in Nat \ {0} /\ b = a + (b - a)
      BY <1>4
    <3> QED BY <3>1
  <2>2. b * c = a * c + d * c /\ d * c \in Nat /\ a * c \in Nat
    BY <2>1
  <2>3. d * c > 0
    BY <1>4, <2>1
  <2> QED BY <2>2, <2>3
<1>5. ASSUME a * c < b * c PROVE a < b
  <2>1. CASE b <= a
    <3>1. b * c <= a * c
      <4>1. PICK d \in Nat : a = b + d
        <5>1. a - b \in Nat /\ a = b + (a - b)
          BY <2>1
        <5> QED BY <5>1
      <4>2. a * c = b * c + d * c /\ d * c \in Nat /\ b * c \in Nat
        BY <4>1
      <4> QED BY <4>2
    <3> QED BY <1>5, <3>1
  <2> QED BY <2>1
<1> QED BY <1>1, <1>2, <1>3, <1>4, <1>5

Fraction == [num : Nat \ {0}, den : Nat \ {0}]

\* A hit that is found has a score.
LEMMA ScoreType ==
    ASSUME NEW a \in Nat, NEW b \in Nat, a # 0 \/ b # 0
    PROVE  Score(a, b) \in Fraction
<1>0. rrf_k \in Nat \ {0} /\ rrf_k + a \in Nat \ {0} /\ rrf_k + b \in Nat \ {0}
  BY RrfAssumption
<1>1. (rrf_k + a) * (rrf_k + b) \in Nat \ {0}
  <2>1. (rrf_k + a) * 1 <= (rrf_k + a) * (rrf_k + b)
    BY <1>0
  <2> QED BY <1>0, <2>1, Products
<1>2. 2 * rrf_k + a + b \in Nat \ {0}
  BY <1>0
<1> QED BY <1>0, <1>1, <1>2 DEF Score, Fraction

\* Scores are ordered: no score is above itself or above one that is above it,
\* and what is above it is above all that is not above it.
LEMMA AboveOrder ==
    ASSUME NEW p \in Fraction, NEW q \in Fraction
    PROVE  /\ ~Above(p, p)
           /\ Above(p, q) => ~Above(q, p)
           /\ \A r \in Fraction : Above(p, q) /\ Above(q, r) => Above(p, r)
           /\ \A r \in Fraction : Above(p, r) => Above(p, q) \/ Above(q, r)
<1> USE DEF Fraction
<1>1. ~Above(p, p) /\ (Above(p, q) => ~Above(q, p))
  BY Products DEF Above
<1>2. ASSUME NEW r \in Fraction, Above(p, q), Above(q, r) PROVE Above(p, r)
  <2> DEFINE a == p.num  b == p.den  c == q.num  d == q.den  e == r.num  f == r.den
  <2>0. /\ a \in Nat \ {0} /\ b \in Nat \ {0} /\ c \in Nat \ {0}
        /\ d \in Nat \ {0} /\ e \in Nat \ {0} /\ f \in Nat \ {0}
    OBVIOUS
  <2>1. c * b < a * d /\ e * d < c * f
    BY <1>2 DEF Above
  <2> SUFFICES e * b < a * f
    BY DEF Above
  <2> HIDE DEF a, b, c, d, e, f
  <2>2. (c * b) * f < (a * d) * f /\ (e * d) * b < (c * f) * b
    BY <2>0, <2>1, Products
  <2>3. (c * b) * f = (c * f) * b /\ (a * d) * f = (a * f) * d /\ (e * d) * b = (e * b) * d
    BY <2>0
  <2>4. (e * b) * d < (a * f) * d
    <3>1. (e * b) * d \in Nat /\ (c * b) * f \in Nat /\ (a * f) * d \in Nat
      BY <2>0, Products
    <3> QED BY <2>2, <2>3, <3>1
  <2> QED BY <2>0, <2>4, Products
<1>3. ASSUME NEW r \in Fraction, Above(p, r), ~Above(p, q) PROVE Above(q, r)
  <2> DEFINE a == p.num  b == p.den  c == q.num  d == q.den  e == r.num  f == r.den
  <2>0. /\ a \in Nat \ {0} /\ b \in Nat \ {0} /\ c \in Nat \ {0}
        /\ d \in Nat \ {0} /\ e \in Nat \ {0} /\ f \in Nat \ {0}
    OBVIOUS
  <2>1. e * b < a * f /\ ~(c * b < a * d)
    BY <1>3 DEF Above
  <2> SUFFICES e * d < c * f
    BY DEF Above
  <2> HIDE DEF a, b, c, d, e, f
  <2>2. a * d \in Nat /\ c * b \in Nat /\ a * d <= c * b
    BY <2>0, <2>1, Products
  <2>3. (e * b) * d < (a * f) * d /\ (a * d) * f <= (c * b) * f
    BY <2>0, <2>1, <2>2, Products
  <2>4. (e * b) * d = (e * d) * b /\ (a * f) * d = (a * d) * f /\ (c * b) * f = (c * f) * b
    BY <2>0
  <2>5. (e * d) * b < (c * f) * b
    <3>1. (e * d) * b \in Nat /\ (a * d) * f \in Nat /\ (c * f) * b \in Nat
      BY <2>0, Products
    <3> QED BY <2>3, <2>4, <3>1
  <2> QED BY <2>0, <2>5, Products
<1> QED BY <1>1, <1>2, <1>3

\* The two searches count alike.
LEMMA ScoreSymmetric ==
    ASSUME NEW a \in Nat, NEW b \in Nat
    PROVE  Score(a, b) = Score(b, a)
<1>1. (rrf_k + a) * (rrf_k + b) = (rrf_k + b) * (rrf_k + a)
      /\ 2 * rrf_k + a + b = 2 * rrf_k + b + a
  BY RrfAssumption
<1> QED BY <1>1 DEF Score

\* A score is that of its ranks moved up by rrf_k.
LEMMA ScoreOfBoth ==
    ASSUME NEW a \in Nat \ {0}, NEW b \in Nat \ {0}
    PROVE  /\ Score(a, b).num = (rrf_k + a) + (rrf_k + b)
           /\ Score(a, b).den = (rrf_k + a) * (rrf_k + b)
           /\ Score(a, 0) = [num |-> 1, den |-> rrf_k + a]
           /\ rrf_k + a \in Nat \ {0}
BY RrfAssumption DEF Score

\* What one search adds to a hit that the other search places no worse makes
\* its score higher.
LEMMA AddedRank ==
    ASSUME NEW a \in Nat \ {0}, NEW c \in Nat \ {0}, NEW d \in Nat \ {0}, c <= d
    PROVE  Above(Score(a, c), Score(0, d))
<1> DEFINE A == rrf_k + a  C == rrf_k + c  D == rrf_k + d
<1>1. A \in Nat \ {0} /\ C \in Nat \ {0} /\ D \in Nat \ {0} /\ C <= D
  BY RrfAssumption
<1>2. Score(a, c).num = A + C /\ Score(a, c).den = A * C
      /\ Score(0, d).num = 1 /\ Score(0, d).den = D
  BY ScoreOfBoth, ScoreSymmetric
<1> HIDE DEF A, C, D
<1>3. A * C \in Nat /\ (A + C) * D = A * D + C * D /\ C * A <= D * A
  BY <1>1, Products
<1>4. C * D \in Nat /\ C * D > 0
  BY <1>1, Products
<1>5. A * C < (A + C) * D
  BY <1>1, <1>3, <1>4, Products
<1> QED BY <1>2, <1>3, <1>5 DEF Above

\* Of two hits that both searches found, the one placed better by one of them
\* and no worse by the other scores higher.
LEMMA BetterRanks ==
    ASSUME NEW a \in Nat \ {0}, NEW b \in Nat \ {0}, NEW c \in Nat \ {0},
           NEW d \in Nat \ {0}, a <= b, c <= d, a # b \/ c # d
    PROVE  Above(Score(a, c), Score(b, d))
<1> DEFINE A == rrf_k + a  B == rrf_k + b  C == rrf_k + c  D == rrf_k + d
<1>1. /\ A \in Nat \ {0} /\ B \in Nat \ {0} /\ C \in Nat \ {0} /\ D \in Nat \ {0}
      /\ A <= B /\ C <= D /\ (A < B \/ C < D)
  BY RrfAssumption
<1>2. /\ Score(a, c).num = A + C /\ Score(a, c).den = A * C
      /\ Score(b, d).num = B + D /\ Score(b, d).den = B * D
  BY ScoreOfBoth
<1> HIDE DEF A, B, C, D
<1>3. /\ A * B \in Nat \ {0} /\ C * D \in Nat \ {0}
      /\ A * C \in Nat /\ B * D \in Nat
  BY <1>1, Products
<1>4. /\ C * (A * B) <= D * (A * B) /\ A * (C * D) <= B * (C * D)
      /\ C < D => C * (A * B) < D * (A * B)
      /\ A < B => A * (C * D) < B * (C * D)
  BY <1>1, <1>3, Products
<1>5. /\ (A + C) * (B * D) = D * (A * B) + B * (C * D)
      /\ (B + D) * (A * C) = C * (A * B) + A * (C * D)
  BY <1>1
<1>6. /\ C * (A * B) \in Nat /\ D * (A * B) \in Nat
      /\ A * (C * D) \in Nat /\ B * (C * D) \in Nat
  BY <1>1, <1>3, Products
<1>7. (B + D) * (A * C) < (A + C) * (B * D)
  BY <1>1, <1>4, <1>5, <1>6
<1> QED BY <1>2, <1>7 DEF Above

\* Of two hits, the one that both searches place at least as well, and one of
\* them better, scores higher; 0 stands for a hit that was not found.
LEMMA ScoreDominant ==
    ASSUME NEW a \in Nat, NEW b \in Nat, NEW c \in Nat, NEW d \in Nat,
           a = b \/ (a # 0 /\ (b = 0 \/ a < b)), c = d \/ (c # 0 /\ (d = 0 \/ c < d)),
           a # b \/ c # d, b # 0 \/ d # 0
    PROVE  Above(Score(a, c), Score(b, d))
<1>1. CASE b = 0 /\ a = 0
  <2>1. c \in Nat \ {0} /\ d \in Nat \ {0} /\ rrf_k + c < rrf_k + d /\ rrf_k \in Nat
    BY <1>1, RrfAssumption
  <2>2. Score(0, c) = [num |-> 1, den |-> rrf_k + c] /\ Score(0, d) = [num |-> 1, den |-> rrf_k + d]
    BY <2>1, ScoreOfBoth, ScoreSymmetric
  <2> QED BY <1>1, <2>1, <2>2 DEF Above
<1>2. CASE b = 0 /\ a # 0
  <2>1. c \in Nat \ {0} /\ d \in Nat \ {0} /\ c <= d
    BY <1>2
  <2> QED BY <1>2, <2>1, AddedRank
<1>3. CASE d = 0 /\ c = 0
  <2>1. a \in Nat \ {0} /\ b \in Nat \ {0} /\ rrf_k + a < rrf_k + b /\ rrf_k \in Nat
    BY <1>3, RrfAssumption
  <2>2. Score(a, 0) = [num |-> 1, den |-> rrf_k + a] /\ Score(b, 0) = [num |-> 1, den |-> rrf_k + b]
    BY <2>1, ScoreOfBoth
  <2> QED BY <1>3, <2>1, <2>2 DEF Above
<1>4. CASE d = 0 /\ c # 0
  <2>1. a \in Nat \ {0} /\ b \in Nat \ {0} /\ a <= b
    BY <1>4
  <2>2. Score(a, c) = Score(c, a) /\ Score(b, d) = Score(0, b)
    BY <1>4, ScoreSymmetric
  <2> QED BY <1>4, <2>1, <2>2, AddedRank
<1>5. CASE b # 0 /\ d # 0
  <2>1. a \in Nat \ {0} /\ c \in Nat \ {0} /\ a <= b /\ c <= d
    BY <1>5
  <2> QED BY <1>5, <2>1, BetterRanks
<1> QED BY <1>1, <1>2, <1>3, <1>4, <1>5

\* A hit that both searches found scores higher than one that only one of them
\* found, if no rank is above rrf_k + 1: 1/(k+a) + 1/(k+b) > 1/(k+1).
LEMMA ScoreAgreed ==
    ASSUME NEW a \in 1..(rrf_k + 1), NEW b \in 1..(rrf_k + 1), NEW c \in Nat \ {0}
    PROVE  Above(Score(a, b), Score(c, 0))
<1> DEFINE A == rrf_k + a  B == rrf_k + b  C == rrf_k + c  m == 2 * rrf_k + 1
<1>1. /\ A \in Nat \ {0} /\ B \in Nat \ {0} /\ C \in Nat \ {0} /\ m \in Nat
      /\ A <= m /\ B <= m /\ m + 1 <= 2 * C /\ A + B > 0
      /\ a \in Nat \ {0} /\ b \in Nat \ {0}
  BY RrfAssumption
<1>2. /\ Score(a, b).num = A + B /\ Score(a, b).den = A * B
      /\ Score(c, 0).num = 1 /\ Score(c, 0).den = C
  BY <1>1, ScoreOfBoth
<1> HIDE DEF A, B, C, m
<1>3. A * B <= m * B /\ B * A <= m * A /\ A * B = B * A /\ A * B \in Nat
  BY <1>1, Products
<1>4. (m + 1) * (A + B) <= (2 * C) * (A + B)
  BY <1>1, Products
<1>5. (m + 1) * (A + B) = m * A + m * B + (A + B)
      /\ (2 * C) * (A + B) = 2 * ((A + B) * C)
  BY <1>1
<1>6. m * A \in Nat /\ m * B \in Nat /\ (A + B) * C \in Nat
  BY <1>1, Products
<1>7. A * B < (A + B) * C
  BY <1>1, <1>3, <1>4, <1>5, <1>6
<1> QED BY <1>2, <1>3, <1>7 DEF Above

-----------------------------------------------------------------------------

\* The smaller and the larger of two numbers.
LEMMA MinMax ==
    ASSUME NEW m \in Int, NEW n \in Int
    PROVE  /\ Min({m, n}) = IF m <= n THEN m ELSE n
           /\ Max({m, n}) = IF m <= n THEN n ELSE m
<1>1. CASE m <= n
  <2>1. \E x \in {m, n} : \A y \in {m, n} : x <= y
    BY <1>1
  <2>2. \E x \in {m, n} : \A y \in {m, n} : x >= y
    BY <1>1
  <2> QED BY <1>1, <2>1, <2>2 DEF Min, Max
<1>2. CASE ~(m <= n)
  <2>1. \E x \in {m, n} : \A y \in {m, n} : x <= y
    BY <1>2
  <2>2. \E x \in {m, n} : \A y \in {m, n} : x >= y
    BY <1>2
  <2> QED BY <1>2, <2>1, <2>2 DEF Min, Max
<1> QED BY <1>1, <1>2

\* Under a limit below 1 nothing is left.
LEMMA TakeNothing ==
    ASSUME NEW S, NEW s \in Seq(S), NEW n \in Int, n < 1
    PROVE  Take(s, n) = <<>>
<1> DEFINE m == Min({n, Len(s)})
<1>1. m \in Int /\ m < 1
  BY LenProperties, MinMax
<1> HIDE DEF m
<1>2. SubSeq(s, 1, m) = <<>>
  BY <1>1, SubSeqEmpty
<1> QED BY <1>2 DEF Take, m

\* A slice is the beginning of a sequence, as long as allowed.
LEMMA TakeFacts ==
    ASSUME NEW S, NEW s \in Seq(S), NEW n \in Nat
    PROVE  /\ Take(s, n) \in Seq(S)
           /\ Len(Take(s, n)) = IF n <= Len(s) THEN n ELSE Len(s)
           /\ Len(Take(s, n)) <= n /\ Len(Take(s, n)) <= Len(s)
           /\ \A i \in 1..Len(Take(s, n)) : Take(s, n)[i] = s[i]
           /\ ToSet(Take(s, n)) \subseteq ToSet(s)
<1> DEFINE m == Min({n, Len(s)})
<1>1. Len(s) \in Nat /\ m = (IF n <= Len(s) THEN n ELSE Len(s)) /\ m \in 0..Len(s)
  BY LenProperties, MinMax
<1> HIDE DEF m
<1>2. \A i \in 1..m : s[i] \in S
  BY <1>1, ElementOfSeq
<1>3. /\ SubSeq(s, 1, m) \in Seq(S) /\ Len(SubSeq(s, 1, m)) = m
      /\ \A i \in 1..m : SubSeq(s, 1, m)[i] = s[i]
  BY <1>1, <1>2, SubSeqProperties
<1>4. Take(s, n) = SubSeq(s, 1, m)
  BY DEF Take, m
<1>5. DOMAIN s = 1..Len(s) /\ DOMAIN Take(s, n) = 1..m
  BY <1>3, <1>4, LenProperties
<1>6. ToSet(Take(s, n)) \subseteq ToSet(s)
  <2>1. \A i \in 1..m : i \in 1..Len(s) /\ Take(s, n)[i] = s[i]
    BY <1>1, <1>3, <1>4
  <2> QED BY <1>5, <2>1 DEF ToSet
<1>7. Take(s, n) \in Seq(S) /\ Len(Take(s, n)) = m
      /\ \A i \in 1..m : Take(s, n)[i] = s[i]
  BY <1>3, <1>4
<1>8. m <= n /\ m <= Len(s)
  BY <1>1
<1> QED BY <1>1, <1>6, <1>7, <1>8

\* The rank of a hit is where it stands.
LEMMA RankFacts ==
    ASSUME NEW r \in Seq(Nat), NEW x
    PROVE  /\ Contains(r, x) <=> x \in ToSet(r)
           /\ Rank(r, x) \in 0..Len(r)
           /\ Rank(r, x) = 0 <=> x \notin ToSet(r)
           /\ x \in ToSet(r) => Rank(r, x) \in 1..Len(r) /\ r[Rank(r, x)] = x
           /\ ToSet(r) \subseteq Nat
<1>1. DOMAIN r = 1..Len(r) /\ Len(r) \in Nat /\ \A i \in 1..Len(r) : r[i] \in Nat
  BY LenProperties, ElementOfSeq
<1>2. ToSet(r) = {r[i] : i \in 1..Len(r)}
  BY <1>1 DEF ToSet
<1>3. Contains(r, x) <=> x \in ToSet(r)
  BY <1>2 DEF Contains
<1>4. CASE x \in ToSet(r)
  <2>1. \E i \in 1..Len(r) : r[i] = x
    BY <1>2, <1>4
  <2>2. Rank(r, x) = CHOOSE i \in 1..Len(r) : r[i] = x
    BY <1>1, <1>3, <1>4 DEF Rank
  <2>3. Rank(r, x) \in 1..Len(r) /\ r[Rank(r, x)] = x
    BY <2>1, <2>2
  <2> QED BY <1>1, <1>2, <1>3, <1>4, <2>3
<1>5. CASE x \notin ToSet(r)
  <2>1. Rank(r, x) = 0
    BY <1>3, <1>5 DEF Rank
  <2> QED BY <1>1, <1>2, <1>3, <1>5, <2>1
<1> QED BY <1>4, <1>5

\* A ranking has finitely many hits.
LEMMA HitsFinite ==
    ASSUME NEW r \in Seq(Nat)
    PROVE  IsFiniteSet(ToSet(r))
<1>1. DOMAIN r = 1..Len(r) /\ Len(r) \in Nat
  BY LenProperties
<1>2. r \in Surjection(1..Len(r), ToSet(r))
  BY <1>1, LenProperties DEF Surjection, ToSet
<1>3. IsFiniteSet(1..Len(r))
  BY <1>1, FS_Interval
<1> QED BY <1>2, <1>3, FS_Surjection

\* All that was found, its scores, and the order of the answer.
Found(l, s) == ToSet(l) \cup ToSet(s)

ScoreOf(l, s, x) == Score(Rank(l, x), Rank(s, x))

Before(l, s, x, y) ==
    \/ Above(ScoreOf(l, s, x), ScoreOf(l, s, y))
    \/ ~Above(ScoreOf(l, s, y), ScoreOf(l, s, x)) /\ x < y

Ahead(l, s, x) == {y \in Found(l, s) : Before(l, s, y, x)}

\* The order by score, then id, is strict and total.
LEMMA BeforeOrder ==
    ASSUME NEW l \in Seq(Nat), NEW s \in Seq(Nat),
           NEW x \in Found(l, s), NEW y \in Found(l, s), NEW z \in Found(l, s)
    PROVE  /\ ~Before(l, s, x, x)
           /\ x # y => Before(l, s, x, y) \/ Before(l, s, y, x)
           /\ Before(l, s, x, y) => ~Before(l, s, y, x)
           /\ Before(l, s, x, y) /\ Before(l, s, y, z) => Before(l, s, x, z)
<1>1. \A v \in Found(l, s) : v \in Nat /\ ScoreOf(l, s, v) \in Fraction
  <2> TAKE v \in Found(l, s)
  <2>1. Rank(l, v) \in Nat /\ Rank(s, v) \in Nat /\ (Rank(l, v) # 0 \/ Rank(s, v) # 0)
    BY RankFacts DEF Found
  <2> QED BY <2>1, RankFacts, ScoreType DEF Found, ScoreOf
<1> DEFINE p == ScoreOf(l, s, x)  q == ScoreOf(l, s, y)  r == ScoreOf(l, s, z)
<1>2. p \in Fraction /\ q \in Fraction /\ r \in Fraction /\ x \in Nat /\ y \in Nat /\ z \in Nat
  BY <1>1
<1>3. /\ Before(l, s, x, x) <=> Above(p, p) \/ (~Above(p, p) /\ x < x)
      /\ Before(l, s, x, y) <=> Above(p, q) \/ (~Above(q, p) /\ x < y)
      /\ Before(l, s, y, x) <=> Above(q, p) \/ (~Above(p, q) /\ y < x)
      /\ Before(l, s, y, z) <=> Above(q, r) \/ (~Above(r, q) /\ y < z)
      /\ Before(l, s, x, z) <=> Above(p, r) \/ (~Above(r, p) /\ x < z)
  BY DEF Before
<1> HIDE DEF p, q, r
<1>4. /\ ~Above(p, p)
      /\ Above(p, q) => ~Above(q, p)
      /\ Above(q, p) => ~Above(p, q)
      /\ Above(p, q) /\ Above(q, r) => Above(p, r)
      /\ Above(p, q) => Above(p, r) \/ Above(r, q)
      /\ Above(q, r) => Above(q, p) \/ Above(p, r)
      /\ Above(r, p) => Above(r, q) \/ Above(q, p)
  BY <1>2, AboveOrder
<1> QED BY <1>2, <1>3, <1>4

\* The place of a hit is the number of hits before it.
Place(l, s) == [x \in Found(l, s) |-> Cardinality(Ahead(l, s, x))]

\* The answer of Fuse has every hit at its place.
LEMMA FuseByPlace ==
    ASSUME NEW l \in Seq(Nat), NEW s \in Seq(Nat)
    PROVE  Fuse(l, s) = [n \in 1..Cardinality(Found(l, s)) |->
                            CHOOSE x \in Found(l, s) : Place(l, s)[x] = n - 1]
<1> DEFINE found == Found(l, s)
           score == [x \in found |-> Score(Rank(l, x), Rank(s, x))]
           before(x, y) == \/ Above(score[x], score[y])
                           \/ ~Above(score[y], score[x]) /\ x < y
           place == [x \in found |-> Cardinality({y \in found : before(y, x)})]
<1>1. \A x \in found : score[x] = ScoreOf(l, s, x)
  BY DEF ScoreOf
<1> HIDE DEF score
<1>2. \A x \in found : {y \in found : before(y, x)} = Ahead(l, s, x)
  BY <1>1 DEF Ahead, Before
<1>3. place = Place(l, s)
  BY <1>2 DEF Place
<1>4. Fuse(l, s) = [n \in 1..Cardinality(found) |-> CHOOSE x \in found : place[x] = n - 1]
  BY DEF Fuse, Found, score
<1> HIDE DEF place
<1> QED BY <1>3, <1>4

\* Places number the hits from 0, in their order, without a gap.
LEMMA PlacesNumber ==
    ASSUME NEW l \in Seq(Nat), NEW s \in Seq(Nat)
    PROVE  LET found == Found(l, s)  n == Cardinality(found) IN
           /\ IsFiniteSet(found) /\ n \in Nat
           /\ Place(l, s) \in [found -> 0..(n - 1)]
           /\ \A x, y \in found : Before(l, s, x, y) => Place(l, s)[x] < Place(l, s)[y]
           /\ \A x, y \in found : Place(l, s)[x] = Place(l, s)[y] => x = y
           /\ \A i \in 0..(n - 1) : \E x \in found : Place(l, s)[x] = i
<1> DEFINE found == Found(l, s)  n == Cardinality(found)  place == Place(l, s)
<1>1. IsFiniteSet(found) /\ n \in Nat
  BY HitsFinite, FS_Union, FS_CardinalityType DEF Found
<1>2. \A x \in found : Ahead(l, s, x) \in SUBSET found /\ x \notin Ahead(l, s, x)
  BY BeforeOrder DEF Ahead
<1>3. \A x \in found : IsFiniteSet(Ahead(l, s, x)) /\ place[x] \in Nat /\ place[x] < n
  <2> TAKE x \in found
  <2>1. IsFiniteSet(Ahead(l, s, x)) /\ Cardinality(Ahead(l, s, x)) \in Nat
    BY <1>1, <1>2, FS_Subset, FS_CardinalityType
  <2>2. Cardinality(Ahead(l, s, x)) <= n /\ Cardinality(Ahead(l, s, x)) # n
    BY <1>1, <1>2, FS_Subset
  <2>3. place[x] = Cardinality(Ahead(l, s, x))
    BY DEF Place
  <2> QED BY <1>1, <2>1, <2>2, <2>3
<1>4. ASSUME NEW x \in found, NEW y \in found, Before(l, s, x, y)
      PROVE  place[x] < place[y]
  <2> DEFINE X == Ahead(l, s, x)  Y == Ahead(l, s, y)
  <2>1. X \in SUBSET Y /\ x \in Y /\ x \notin X
    BY <1>2, <1>4, BeforeOrder DEF Ahead
  <2>2. IsFiniteSet(X) /\ IsFiniteSet(Y) /\ Cardinality(X) \in Nat /\ Cardinality(Y) \in Nat
    BY <1>3, FS_CardinalityType
  <2>3. Cardinality(X) <= Cardinality(Y) /\ Cardinality(X) # Cardinality(Y)
    BY <2>1, <2>2, FS_Subset
  <2>4. place[x] = Cardinality(X) /\ place[y] = Cardinality(Y)
    BY DEF Place
  <2> QED BY <2>2, <2>3, <2>4
<1>5. \A x, y \in found : place[x] = place[y] => x = y
  <2> SUFFICES ASSUME NEW x \in found, NEW y \in found, x # y
               PROVE  place[x] # place[y]
    OBVIOUS
  <2>1. Before(l, s, x, y) \/ Before(l, s, y, x)
    BY BeforeOrder
  <2> QED BY <1>3, <1>4, <2>1
<1>6. place \in [found -> 0..(n - 1)]
  BY <1>1, <1>3 DEF Place
<1>7. place \in Surjection(found, 0..(n - 1))
  <2>1. place \in Injection(found, 0..(n - 1))
    BY <1>5, <1>6 DEF Injection, IsInjective
  <2>2. IsFiniteSet(0..(n - 1)) /\ Cardinality(0..(n - 1)) = n
    <3>1. 0 \in Int /\ n - 1 \in Int /\ n \in Nat
      BY <1>1
    <3> HIDE DEF n
    <3>2. IsFiniteSet(0..(n - 1))
          /\ Cardinality(0..(n - 1)) = IF 0 > n - 1 THEN 0 ELSE (n - 1) - 0 + 1
      BY <3>1, FS_Interval
    <3> QED BY <3>1, <3>2
  <2> QED BY <2>1, <2>2, FS_Injection
<1>8. \A i \in 0..(n - 1) : \E x \in found : place[x] = i
  BY <1>7 DEF Surjection
<1> QED BY <1>1, <1>4, <1>5, <1>6, <1>8

\* The fused answer is everything that was found, once each, in the order of
\* scores.
THEOREM FuseOrders ==
    ASSUME NEW l \in Seq(Nat), NEW s \in Seq(Nat)
    PROVE  LET found == Found(l, s)  n == Cardinality(found)  f == Fuse(l, s) IN
           /\ IsFiniteSet(found) /\ n \in Nat
           /\ f \in Seq(found) /\ Len(f) = n
           /\ \A i, j \in 1..n : f[i] = f[j] => i = j
           /\ \A x \in found : \E i \in 1..n : f[i] = x
           /\ \A i, j \in 1..n : Before(l, s, f[i], f[j]) => i < j
<1> DEFINE found == Found(l, s)  n == Cardinality(found)  f == Fuse(l, s)
           place == Place(l, s)
<1>1. /\ IsFiniteSet(found) /\ n \in Nat
      /\ place \in [found -> 0..(n - 1)]
      /\ \A x, y \in found : Before(l, s, x, y) => place[x] < place[y]
      /\ \A x, y \in found : place[x] = place[y] => x = y
      /\ \A i \in 0..(n - 1) : \E x \in found : place[x] = i
  BY PlacesNumber
<1>2. f = [i \in 1..n |-> CHOOSE x \in found : place[x] = i - 1]
  BY FuseByPlace
<1> HIDE DEF found, n, f, place
<1>3. \A i \in 1..n : f[i] \in found /\ place[f[i]] = i - 1
  <2> TAKE i \in 1..n
  <2>1. i - 1 \in 0..(n - 1)
    BY <1>1
  <2>2. f[i] = CHOOSE x \in found : place[x] = i - 1
    BY <1>2
  <2> QED BY <1>1, <2>1, <2>2
<1>4. f \in [1..n -> found]
  BY <1>2, <1>3
<1>5. f \in Seq(found) /\ Len(f) = n
  BY <1>1, <1>4, SeqDef
<1>6. \A i, j \in 1..n : f[i] = f[j] => i = j
  BY <1>1, <1>3
<1>7. ASSUME NEW x \in found PROVE \E i \in 1..n : f[i] = x
  <2>1. place[x] + 1 \in 1..n /\ place[x] \in Nat
    BY <1>1
  <2>2. place[f[place[x] + 1]] = place[x] /\ f[place[x] + 1] \in found
    BY <1>3, <2>1
  <2> QED BY <1>1, <2>1, <2>2
<1>8. \A i, j \in 1..n : Before(l, s, f[i], f[j]) => i < j
  BY <1>1, <1>3
<1> QED BY <1>1, <1>5, <1>6, <1>7, <1>8 DEF found, n, f, place

-----------------------------------------------------------------------------
\* Sequences, and the computations of a build on them.

\* Sequences without repetition.
Distinct(s) == \A i, j \in DOMAIN s : s[i] = s[j] => i = j

\* A sequence has the members of its set, at the places of its domain.
LEMMA SequenceFacts ==
    ASSUME NEW S, NEW s \in Seq(S)
    PROVE  /\ Len(s) \in Nat /\ DOMAIN s = 1..Len(s)
           /\ s \in [1..Len(s) -> S]
           /\ ToSet(s) = {s[i] : i \in 1..Len(s)} /\ ToSet(s) \subseteq S
           /\ IsFiniteSet(ToSet(s))
           /\ s \in Seq(ToSet(s))
<1>1. Len(s) \in Nat /\ DOMAIN s = 1..Len(s) /\ s \in [1..Len(s) -> S]
  BY LenProperties
<1>2. ToSet(s) = {s[i] : i \in 1..Len(s)} /\ ToSet(s) \subseteq S
  BY <1>1 DEF ToSet
<1>3. s \in Surjection(1..Len(s), ToSet(s))
  BY <1>1, <1>2 DEF Surjection
<1>4. IsFiniteSet(1..Len(s))
  BY <1>1, FS_Interval
<1>5. IsFiniteSet(ToSet(s))
  BY <1>3, <1>4, FS_Surjection
<1>6. s \in [1..Len(s) -> ToSet(s)]
  BY <1>1, <1>2
<1>7. s \in Seq(ToSet(s))
  BY <1>1, <1>6, SeqDef
<1> QED BY <1>1, <1>2, <1>5, <1>7

\* A sequence without repetition is as long as its set is large.
LEMMA DistinctCounts ==
    ASSUME NEW S, NEW s \in Seq(S), Distinct(s)
    PROVE  Cardinality(ToSet(s)) = Len(s)
<1>1. /\ Len(s) \in Nat /\ DOMAIN s = 1..Len(s) /\ IsFiniteSet(ToSet(s))
      /\ s \in [1..Len(s) -> S] /\ ToSet(s) = {s[i] : i \in 1..Len(s)}
  BY SequenceFacts
<1>2. s \in Surjection(1..Len(s), ToSet(s))
  BY <1>1 DEF Surjection
<1>3. s \in Injection(1..Len(s), ToSet(s))
  BY <1>1, <1>2 DEF Injection, IsInjective, Surjection, Distinct
<1>4. IsFiniteSet(1..Len(s)) /\ Cardinality(1..Len(s)) = Len(s)
  <2>1. 1 \in Int /\ Len(s) \in Int /\ Len(s) \in Nat
    BY <1>1
  <2>2. Cardinality(1..Len(s)) = IF 1 > Len(s) THEN 0 ELSE Len(s) - 1 + 1
    BY <2>1, FS_Interval
  <2> QED BY <2>1, <2>2, FS_Interval
<1> QED BY <1>2, <1>3, <1>4, FS_Surjection

\* The sequences of a finite set have all its members, each once.
LEMMA SeqsOfSet ==
    ASSUME NEW S, IsFiniteSet(S), NEW s \in SetToSeqs(S)
    PROVE  /\ s \in Seq(S) /\ Len(s) = Cardinality(S) /\ Distinct(s) /\ ToSet(s) = S
<1> DEFINE n == Cardinality(S)
<1>1. n \in Nat
  BY FS_CardinalityType
<1>2. s \in [1..n -> S] /\ \A i, j \in 1..n : i # j => s[i] # s[j]
  BY DEF SetToSeqs
<1> HIDE DEF n
<1>3. s \in Seq(S) /\ Len(s) = n /\ DOMAIN s = 1..n
  BY <1>1, <1>2, SeqDef, LenProperties
<1>4. Distinct(s)
  BY <1>2, <1>3 DEF Distinct
<1>5. Cardinality(ToSet(s)) = n /\ ToSet(s) \in SUBSET S
  BY <1>3, <1>4, DistinctCounts, SequenceFacts
<1>6. ToSet(s) = S
  BY <1>5, FS_Subset DEF n
<1> QED BY <1>3, <1>4, <1>6 DEF n

\* A slice that is shorter than allowed is the whole sequence; no slice repeats
\* what the sequence does not.
LEMMA TakeAll ==
    ASSUME NEW S, NEW s \in Seq(S), NEW n \in Nat
    PROVE  /\ Len(Take(s, n)) < n => ToSet(Take(s, n)) = ToSet(s)
           /\ Distinct(s) => Distinct(Take(s, n))
<1> DEFINE t == Take(s, n)
<1>1. /\ t \in Seq(S) /\ Len(t) = IF n <= Len(s) THEN n ELSE Len(s)
      /\ Len(t) <= Len(s) /\ \A i \in 1..Len(t) : t[i] = s[i]
  BY TakeFacts
<1> HIDE DEF t
<1>2. /\ Len(s) \in Nat /\ DOMAIN s = 1..Len(s) /\ ToSet(s) = {s[i] : i \in 1..Len(s)}
      /\ Len(t) \in Nat /\ DOMAIN t = 1..Len(t) /\ ToSet(t) = {t[i] : i \in 1..Len(t)}
  BY <1>1, SequenceFacts
<1>3. ASSUME Len(t) < n
      PROVE  ToSet(t) = ToSet(s)
  <2>1. Len(t) = Len(s)
    <3>1. CASE n <= Len(s)
      BY <1>1, <1>3, <3>1
    <3>2. CASE ~(n <= Len(s))
      BY <1>1, <3>2
    <3> QED BY <3>1, <3>2
  <2>2. \A i \in 1..Len(s) : t[i] = s[i]
    BY <1>1, <2>1
  <2> QED BY <1>2, <2>1, <2>2
<1>4. ASSUME Distinct(s)
      PROVE  Distinct(t)
  <2>1. \A i \in 1..Len(t) : i \in 1..Len(s) /\ t[i] = s[i]
    BY <1>1, <1>2
  <2> QED BY <1>2, <1>4, <2>1 DEF Distinct
<1> QED BY <1>3, <1>4 DEF t

\* AtPlaces numbers the places in their order.
LEMMA Numbering ==
    ASSUME NEW m \in Nat, NEW places \in SUBSET (1..m)
    PROVE  LET n == Cardinality(places)
               at == [k \in 1..n |->
                        CHOOSE i \in places : Cardinality({j \in places : j <= i}) = k]
           IN  /\ n \in Nat /\ n <= m
               /\ at \in [1..n -> places]
               /\ \A k, l \in 1..n : at[k] = at[l] => k = l
               /\ \A i \in places : \E k \in 1..n : at[k] = i
               /\ \A k \in 1..n : Cardinality({j \in places : j <= at[k]}) = k
               /\ IsFiniteSet(places)
<1> DEFINE n == Cardinality(places)
           upto(i) == {j \in places : j <= i}
           rank == [i \in places |-> Cardinality(upto(i))]
           at == [k \in 1..n |-> CHOOSE i \in places : Cardinality(upto(i)) = k]
<1>1. IsFiniteSet(places) /\ n \in Nat /\ n <= m
  <2>1. IsFiniteSet(1..m) /\ Cardinality(1..m) = m
    <3>1. Cardinality(1..m) = IF 1 > m THEN 0 ELSE m - 1 + 1
      BY FS_Interval
    <3> QED BY <3>1, FS_Interval
  <2> QED BY <2>1, FS_Subset, FS_CardinalityType
<1>2. \A i \in places : i \in Nat
  OBVIOUS
<1>3. ASSUME NEW i \in places
      PROVE  IsFiniteSet(upto(i)) /\ rank[i] = Cardinality(upto(i)) /\ rank[i] \in 1..n
  <2>1. upto(i) \in SUBSET places /\ i \in upto(i)
    BY <1>2
  <2>2. IsFiniteSet(upto(i)) /\ Cardinality(upto(i)) \in Nat /\ Cardinality(upto(i)) <= n
    BY <1>1, <2>1, FS_Subset, FS_CardinalityType
  <2>3. Cardinality(upto(i)) # 0
    BY <2>1, <2>2, FS_EmptySet
  <2> QED BY <1>1, <2>2, <2>3
<1>4. ASSUME NEW i \in places, NEW j \in places, i < j
      PROVE  rank[i] < rank[j]
  <2>0. i \in Nat /\ j \in Nat
    BY <1>2
  <2>1. upto(i) \in SUBSET upto(j) /\ j \in upto(j) /\ j \notin upto(i)
    <3>1. \A x \in places : x \in Nat /\ (x <= i => x <= j)
      BY <1>2, <1>4, <2>0
    <3>2. ~(j <= i) /\ j <= j
      BY <1>4, <2>0
    <3> QED BY <3>1, <3>2
  <2>2. /\ IsFiniteSet(upto(i)) /\ IsFiniteSet(upto(j))
        /\ rank[i] = Cardinality(upto(i)) /\ rank[j] = Cardinality(upto(j))
        /\ rank[i] \in Nat /\ rank[j] \in Nat
    BY <1>1, <1>3
  <2>3. Cardinality(upto(i)) <= Cardinality(upto(j)) /\ Cardinality(upto(i)) # Cardinality(upto(j))
    BY <2>1, <2>2, FS_Subset
  <2> QED BY <2>2, <2>3
<1>5. \A i, j \in places : rank[i] = rank[j] => i = j
  <2> SUFFICES ASSUME NEW i \in places, NEW j \in places, i # j
               PROVE  rank[i] # rank[j]
    OBVIOUS
  <2>1. i < j \/ j < i
    BY <1>2
  <2> QED BY <1>1, <1>3, <1>4, <2>1
<1>6. rank \in Surjection(places, 1..n)
  <2>1. rank \in [places -> 1..n]
    BY <1>3
  <2>2. rank \in Injection(places, 1..n)
    BY <1>5, <2>1 DEF Injection, IsInjective
  <2>3. IsFiniteSet(1..n) /\ Cardinality(1..n) = n
    <3>1. 1 \in Int /\ n \in Int /\ n \in Nat
      BY <1>1
    <3> HIDE DEF n
    <3>2. Cardinality(1..n) = IF 1 > n THEN 0 ELSE n - 1 + 1
      BY <3>1, FS_Interval
    <3> QED BY <3>1, <3>2, FS_Interval
  <2> QED BY <2>2, <2>3, FS_Injection
<1>7. \A k \in 1..n : \E i \in places : rank[i] = k
  BY <1>6 DEF Surjection
<1>8. ASSUME NEW k \in 1..n
      PROVE  at[k] \in places /\ rank[at[k]] = k
  <2>1. \E i \in places : Cardinality(upto(i)) = k
    BY <1>3, <1>7
  <2>2. at[k] \in places /\ Cardinality(upto(at[k])) = k
    BY <2>1
  <2> QED BY <1>3, <2>2
<1>8a. \A k \in 1..n : Cardinality({j \in places : j <= at[k]}) = k
  <2> TAKE k \in 1..n
  <2>1. \E i \in places : Cardinality(upto(i)) = k
    BY <1>3, <1>7
  <2>2. Cardinality(upto(at[k])) = k
    BY <2>1
  <2> QED BY <2>2
<1> HIDE DEF rank
<1>9. at \in [1..n -> places]
  BY <1>8
<1> HIDE DEF at, n
<1>10. \A k, l \in 1..n : at[k] = at[l] => k = l
  BY <1>8
<1>11. \A i \in places : \E k \in 1..n : at[k] = i
  <2> TAKE i \in places
  <2>1. rank[i] \in 1..n
    BY <1>3
  <2>2. at[rank[i]] \in places /\ rank[at[rank[i]]] = rank[i]
    BY <1>8, <2>1
  <2>3. at[rank[i]] = i
    BY <1>5, <2>2
  <2> QED BY <2>1, <2>3
<1> QED BY <1>1, <1>8a, <1>9, <1>10, <1>11 DEF at, n

\* r has the entries of s at these places, one for each place.
Picks(r, s, places) ==
    \E at \in [1..Len(r) -> places] :
        /\ \A k \in 1..Len(r) : r[k] = s[at[k]]
        /\ \A k, l \in 1..Len(r) : at[k] = at[l] => k = l
        /\ \A i \in places : \E k \in 1..Len(r) : at[k] = i

\* AtPlaces returns them.
LEMMA AtPlacesFacts ==
    ASSUME NEW S, NEW m \in Nat, NEW s \in [1..m -> S], NEW places \in SUBSET (1..m)
    PROVE  LET r == AtPlaces(s, places) IN
           /\ r \in Seq(S) /\ Len(r) = Cardinality(places) /\ Len(r) <= m
           /\ Picks(r, s, places)
<1> DEFINE n == Cardinality(places)
           at == [k \in 1..n |->
                    CHOOSE i \in places : Cardinality({j \in places : j <= i}) = k]
           r == AtPlaces(s, places)
<1>1. /\ n \in Nat /\ n <= m
      /\ at \in [1..n -> places]
      /\ \A k, l \in 1..n : at[k] = at[l] => k = l
      /\ \A i \in places : \E k \in 1..n : at[k] = i
  BY Numbering
<1>2. r = [k \in 1..n |-> s[at[k]]]
  BY DEF AtPlaces
<1> HIDE DEF n, at, r
<1>3. r \in [1..n -> S]
  BY <1>1, <1>2
<1>4. r \in Seq(S) /\ Len(r) = n
  BY <1>1, <1>3, SeqDef, LenProperties
<1>5. \A k \in 1..n : r[k] = s[at[k]]
  BY <1>2
<1>6. Picks(r, s, places)
  BY <1>1, <1>4, <1>5 DEF Picks
<1> QED BY <1>1, <1>4, <1>6 DEF n, r

\* There is a first and a last place.
LEMMA FirstAndLast ==
    ASSUME NEW m \in Nat, NEW places \in SUBSET (1..m), places # {}
    PROVE  /\ Min(places) \in places /\ \A j \in places : Min(places) <= j
           /\ Max(places) \in places /\ \A j \in places : j <= Max(places)
<1> DEFINE n == Cardinality(places)
           at == [k \in 1..n |->
                    CHOOSE i \in places : Cardinality({j \in places : j <= i}) = k]
           upto(i) == {j \in places : j <= i}
<1>1. /\ n \in Nat /\ at \in [1..n -> places] /\ IsFiniteSet(places)
      /\ \A k \in 1..n : Cardinality(upto(at[k])) = k
  BY Numbering
<1>2. n # 0
  BY <1>1, FS_EmptySet
<1> HIDE DEF n, at
<1>3. \A i \in places : i \in Nat
  OBVIOUS
<1>4. 1 \in 1..n /\ n \in 1..n
  BY <1>1, <1>2
<1>5. \A j \in places : at[1] <= j
  <2> SUFFICES ASSUME NEW j \in places, ~(at[1] <= j)
               PROVE  FALSE
    OBVIOUS
  <2>1. at[1] \in Nat /\ j \in Nat /\ at[1] \in places
    BY <1>1, <1>3, <1>4
  <2>2. {j, at[1]} \in SUBSET upto(at[1]) /\ j # at[1]
    BY <2>1
  <2>3. upto(at[1]) \in SUBSET places /\ Cardinality(upto(at[1])) = 1
    BY <1>1, <1>4
  <2>4. IsFiniteSet(upto(at[1]))
    BY <1>1, <2>3, FS_Subset
  <2>5. \E x : upto(at[1]) = {x}
    BY <2>3, <2>4, FS_Singleton
  <2> QED BY <2>2, <2>5
<1>6. \A j \in places : j <= at[n]
  <2>1. upto(at[n]) \in SUBSET places /\ Cardinality(upto(at[n])) = Cardinality(places)
    BY <1>1, <1>4 DEF n
  <2>2. upto(at[n]) = places
    BY <1>1, <2>1, FS_Subset
  <2> QED BY <2>2
<1>7. at[1] \in places /\ at[n] \in places
  BY <1>1, <1>4
<1>8. \A x \in places : \A y \in places : x >= y <=> y <= x
  BY <1>3
<1>9. Min(places) \in places /\ \A j \in places : Min(places) <= j
  BY <1>5, <1>7 DEF Min
<1>10. Max(places) \in places /\ \A j \in places : Max(places) >= j
  BY <1>6, <1>7, <1>8 DEF Max
<1> QED BY <1>8, <1>9, <1>10

-----------------------------------------------------------------------------
\* The computations of a build.

\* What build() keeps of the answer is what is relevant in it.
LEMMA RelevantFacts ==
    ASSUME NEW S, NEW s \in Seq(S), NEW at_time
    PROVE  LET r == Relevant(s, at_time) IN
           /\ r \in Seq(S) /\ Len(r) <= Len(s)
           /\ ToSet(r) = {x \in ToSet(s) : RelevantToContext(x, at_time)}
           /\ Distinct(s) => Distinct(r)
<1> DEFINE m == Len(s)
           places == {i \in 1..m : RelevantToContext(s[i], at_time)}
           r == Relevant(s, at_time)
<1>1. /\ m \in Nat /\ DOMAIN s = 1..m /\ s \in [1..m -> S] /\ ToSet(s) = {s[i] : i \in 1..m}
  BY SequenceFacts
<1>2. r = AtPlaces(s, places)
  BY <1>1 DEF Relevant
<1>3. places \in SUBSET (1..m) /\ \A i \in 1..m : i \in places <=> RelevantToContext(s[i], at_time)
  OBVIOUS
<1> HIDE DEF m, places, r
<1>4. r \in Seq(S) /\ Len(r) <= m /\ Picks(r, s, places)
  BY <1>1, <1>2, <1>3, AtPlacesFacts
<1>5. PICK at \in [1..Len(r) -> places] :
            /\ \A k \in 1..Len(r) : r[k] = s[at[k]]
            /\ \A k, l \in 1..Len(r) : at[k] = at[l] => k = l
            /\ \A i \in places : \E k \in 1..Len(r) : at[k] = i
  BY <1>4 DEF Picks
<1>6. DOMAIN r = 1..Len(r) /\ ToSet(r) = {r[i] : i \in 1..Len(r)}
  BY <1>4, SequenceFacts
<1>7. ToSet(r) = {x \in ToSet(s) : RelevantToContext(x, at_time)}
  BY <1>1, <1>3, <1>5, <1>6
<1>8. ASSUME Distinct(s)
      PROVE  Distinct(r)
  <2> SUFFICES ASSUME NEW k \in 1..Len(r), NEW l \in 1..Len(r), r[k] = r[l]
               PROVE  k = l
    BY <1>6 DEF Distinct
  <2>1. at[k] \in 1..m /\ at[l] \in 1..m /\ s[at[k]] = s[at[l]]
    BY <1>3, <1>5
  <2>2. at[k] = at[l]
    BY <1>1, <1>8, <2>1 DEF Distinct
  <2> QED BY <1>5, <2>2
<1> QED BY <1>4, <1>7, <1>8 DEF r, m

\* The span ids of a sequence.
Ids(s) == [i \in DOMAIN s |-> s[i].span_id]

\* They are a sequence as long.
LEMMA IdsFacts ==
    ASSUME NEW S, NEW s \in Seq(S)
    PROVE  /\ Ids(s) \in Seq({x.span_id : x \in ToSet(s)}) /\ Len(Ids(s)) = Len(s)
           /\ ToSet(Ids(s)) = {x.span_id : x \in ToSet(s)}
           /\ Distinct(Ids(s)) => Distinct(s)
           /\ Distinct(Ids(s)) => Cardinality({x.span_id : x \in ToSet(s)}) = Len(s)
<1> DEFINE T == {x.span_id : x \in ToSet(s)}
           d == Ids(s)
<1>1. Len(s) \in Nat /\ DOMAIN s = 1..Len(s) /\ ToSet(s) = {s[i] : i \in 1..Len(s)}
  BY SequenceFacts
<1>2. d = [i \in 1..Len(s) |-> s[i].span_id]
  BY <1>1 DEF Ids
<1>3. d \in [1..Len(s) -> T]
  BY <1>1, <1>2
<1> HIDE DEF T, d
<1>4. d \in Seq(T) /\ Len(d) = Len(s) /\ DOMAIN d = 1..Len(s)
  BY <1>1, <1>3, SeqDef, LenProperties
<1>5. ToSet(d) = T
  BY <1>1, <1>2, <1>4 DEF ToSet, T
<1>6. Distinct(d) => Distinct(s)
  BY <1>1, <1>2, <1>4 DEF Distinct
<1>7. Distinct(d) => Cardinality(T) = Len(s)
  BY <1>4, <1>5, DistinctCounts
<1> QED BY <1>4, <1>5, <1>6, <1>7 DEF T, d

\* A merge has each span id of the two sequences once, and the value that comes
\* last in them.
LEMMA MergeFacts ==
    ASSUME NEW S, NEW s \in Seq(S), NEW t \in Seq(S)
    PROVE  LET r == Merge(s, t) IN
           /\ r \in Seq(S) /\ ToSet(r) \subseteq ToSet(s) \cup ToSet(t)
           /\ Distinct(Ids(r))
           /\ \A x \in ToSet(s) \cup ToSet(t) : \E y \in ToSet(r) : y.span_id = x.span_id
           /\ \A x \in ToSet(t) :
                 (\A y \in ToSet(t) : y.span_id = x.span_id => y = x) => x \in ToSet(r)
<1> DEFINE all == s \o t
           m == Len(s) + Len(t)
           same(i) == {j \in 1..m : all[j].span_id = all[i].span_id}
           last == [i \in 1..m |-> all[Max(same(i))]]
           places == {i \in 1..m : i = Min(same(i))}
           r == Merge(s, t)
<1>1. /\ Len(s) \in Nat /\ Len(t) \in Nat /\ m \in Nat
      /\ ToSet(s) = {s[i] : i \in 1..Len(s)} /\ ToSet(t) = {t[i] : i \in 1..Len(t)}
  <2>1. /\ Len(s) \in Nat /\ Len(t) \in Nat
        /\ ToSet(s) = {s[i] : i \in 1..Len(s)} /\ ToSet(t) = {t[i] : i \in 1..Len(t)}
    BY SequenceFacts
  <2> QED BY <2>1
<1>2. /\ all \in Seq(S) /\ Len(all) = m /\ DOMAIN all = 1..m
      /\ \A i \in 1..m : all[i] \in S
      /\ \A i \in 1..m : all[i] = IF i <= Len(s) THEN s[i] ELSE t[i - Len(s)]
  <2>1. all \in Seq(S) /\ Len(all) = m
        /\ \A i \in 1..m : all[i] = IF i <= Len(s) THEN s[i] ELSE t[i - Len(s)]
    BY ConcatProperties
  <2> HIDE DEF all, m
  <2> QED BY <2>1, SequenceFacts, ElementOfSeq
<1>3. r = AtPlaces(last, places)
  BY <1>2 DEF Merge
<1> HIDE DEF all, r
<1>4. ASSUME NEW i \in 1..m
      PROVE  /\ Max(same(i)) \in 1..m /\ all[Max(same(i))].span_id = all[i].span_id
             /\ Max(same(i)) >= i
             /\ Min(same(i)) \in 1..m /\ all[Min(same(i))].span_id = all[i].span_id
  <2>1. same(i) \in SUBSET (1..m) /\ i \in same(i)
    OBVIOUS
  <2> DEFINE P == same(i)
  <2>2. \A j \in P : j \in 1..m /\ all[j].span_id = all[i].span_id
    OBVIOUS
  <2> HIDE DEF P
  <2>3. P \in SUBSET (1..m) /\ P # {} /\ i \in P
    BY <2>1 DEF P
  <2>4. Max(P) \in P /\ Min(P) \in P /\ i <= Max(P)
    BY <1>1, <2>3, FirstAndLast
  <2>5. Max(P) \in 1..m /\ i \in 1..m
    BY <2>2, <2>4
  <2>6. Max(P) >= i
    BY <1>1, <2>4, <2>5
  <2> QED BY <2>2, <2>4, <2>6 DEF P
<1>5. ASSUME NEW i \in 1..m, NEW j \in 1..m, all[i].span_id = all[j].span_id
      PROVE  same(i) = same(j)
  BY <1>5
<1>6. /\ \A i \in 1..m : last[i] = all[Max(same(i))] /\ last[i].span_id = all[i].span_id
      /\ last \in [1..m -> S]
  BY <1>2, <1>4
<1>7. /\ \A i \in 1..m : Min(same(i)) \in places
      /\ \A i, j \in places : all[i].span_id = all[j].span_id => i = j
      /\ places \in SUBSET (1..m)
  <2>1. ASSUME NEW i \in 1..m PROVE Min(same(i)) \in places
    <3> DEFINE k == Min(same(i))
    <3>1. k \in 1..m /\ all[k].span_id = all[i].span_id
      BY <1>4
    <3>2. same(k) = same(i)
      BY <1>5, <3>1
    <3> QED BY <3>1, <3>2
  <2>2. ASSUME NEW i \in places, NEW j \in places, all[i].span_id = all[j].span_id
        PROVE  i = j
    <3>1. same(i) = same(j)
      BY <1>5, <2>2
    <3> QED BY <3>1
  <2> QED BY <2>1, <2>2
<1> HIDE DEF last, places
<1>8. r \in Seq(S) /\ Picks(r, last, places)
  <2>1. m \in Nat /\ last \in [1..m -> S] /\ places \in SUBSET (1..m)
    BY <1>1, <1>6, <1>7
  <2> HIDE DEF m
  <2> QED BY <1>3, <2>1, AtPlacesFacts
<1>9. PICK at \in [1..Len(r) -> places] :
            /\ \A k \in 1..Len(r) : r[k] = last[at[k]]
            /\ \A k, l \in 1..Len(r) : at[k] = at[l] => k = l
            /\ \A i \in places : \E k \in 1..Len(r) : at[k] = i
  BY <1>8 DEF Picks
<1>10. DOMAIN r = 1..Len(r) /\ ToSet(r) = {r[k] : k \in 1..Len(r)}
  BY <1>8, SequenceFacts
<1>11. Distinct(Ids(r))
  <2>1. DOMAIN Ids(r) = 1..Len(r) /\ \A k \in 1..Len(r) : Ids(r)[k] = r[k].span_id
    BY <1>10 DEF Ids
  <2>2. ASSUME NEW k \in 1..Len(r), NEW l \in 1..Len(r), r[k].span_id = r[l].span_id
        PROVE  k = l
    <3>1. at[k] \in places /\ at[l] \in places /\ at[k] \in 1..m /\ at[l] \in 1..m
      BY <1>7, <1>9
    <3>2. all[at[k]].span_id = all[at[l]].span_id
      BY <1>6, <1>9, <2>2, <3>1
    <3> QED BY <1>7, <1>9, <3>1, <3>2
  <2> QED BY <2>1, <2>2 DEF Distinct
<1>12. ASSUME NEW i \in 1..m
       PROVE  \E y \in ToSet(r) : y = all[Max(same(i))]
  <2> DEFINE k == Min(same(i))
  <2>1. k \in places /\ k \in 1..m /\ all[k].span_id = all[i].span_id
    BY <1>4, <1>7
  <2>2. same(k) = same(i)
    BY <1>5, <2>1
  <2>3. last[k] = all[Max(same(i))]
    BY <1>6, <2>1, <2>2
  <2> HIDE DEF k
  <2>4. PICK l \in 1..Len(r) : at[l] = k
    BY <1>9, <2>1
  <2>5. r[l] = all[Max(same(i))]
    BY <1>9, <2>3, <2>4
  <2> QED BY <1>10, <2>5
<1>13. \A i \in 1..m : all[i] \in ToSet(s) \cup ToSet(t)
  <2> TAKE i \in 1..m
  <2>1. CASE i <= Len(s)
    <3>1. i \in 1..Len(s) /\ all[i] = s[i]
      BY <1>1, <1>2, <2>1
    <3> QED BY <1>1, <3>1
  <2>2. CASE ~(i <= Len(s))
    <3>1. i - Len(s) \in 1..Len(t) /\ all[i] = t[i - Len(s)]
      BY <1>1, <1>2, <2>2
    <3> QED BY <1>1, <3>1
  <2> QED BY <2>1, <2>2
<1>14. ToSet(r) \subseteq ToSet(s) \cup ToSet(t)
  <2> SUFFICES ASSUME NEW k \in 1..Len(r) PROVE r[k] \in ToSet(s) \cup ToSet(t)
    BY <1>10
  <2>1. at[k] \in 1..m /\ r[k] = last[at[k]]
    BY <1>7, <1>9
  <2>2. r[k] = all[Max(same(at[k]))] /\ Max(same(at[k])) \in 1..m
    BY <1>4, <1>6, <2>1
  <2> QED BY <1>13, <2>2
<1>15. ASSUME NEW x \in ToSet(s) \cup ToSet(t)
       PROVE  \E y \in ToSet(r) : y.span_id = x.span_id
  <2>1. PICK i \in 1..m : x = all[i]
    <3>1. CASE x \in ToSet(s)
      <4>1. PICK i \in 1..Len(s) : x = s[i]
        BY <1>1, <3>1
      <4>2. i \in 1..m /\ i <= Len(s)
        BY <1>1
      <4> QED BY <1>2, <4>1, <4>2
    <3>2. CASE x \in ToSet(t)
      <4>1. PICK i \in 1..Len(t) : x = t[i]
        BY <1>1, <3>2
      <4>2. i + Len(s) \in 1..m /\ ~(i + Len(s) <= Len(s)) /\ (i + Len(s)) - Len(s) = i
        BY <1>1
      <4> QED BY <1>2, <4>1, <4>2
    <3> QED BY <3>1, <3>2
  <2> QED BY <1>4, <1>12, <2>1
<1>16. ASSUME NEW x \in ToSet(t), \A y \in ToSet(t) : y.span_id = x.span_id => y = x
       PROVE  x \in ToSet(r)
  <2>1. PICK i \in 1..Len(t) : x = t[i]
    BY <1>1
  <2> DEFINE j == i + Len(s)
             k == Max(same(j))
  <2>2. j \in 1..m /\ ~(j <= Len(s)) /\ j - Len(s) = i /\ j > Len(s)
    BY <1>1
  <2>3. all[j] = x
    BY <1>2, <2>1, <2>2
  <2> HIDE DEF j
  <2>4. k \in 1..m /\ k >= j /\ all[k].span_id = x.span_id
    BY <1>4, <2>2, <2>3
  <2>5. \E y \in ToSet(r) : y = all[k]
    BY <1>12, <2>2
  <2> HIDE DEF k
  <2>6. ~(k <= Len(s)) /\ k - Len(s) \in 1..Len(t)
    BY <1>1, <2>2, <2>4
  <2>7. all[k] = t[k - Len(s)] /\ all[k] \in ToSet(t)
    BY <1>1, <1>2, <2>4, <2>6
  <2> QED BY <1>16, <2>4, <2>5, <2>7
<1> QED BY <1>8, <1>11, <1>14, <1>15, <1>16 DEF r

\* The evidence of a bundle: with room left, nothing of the two lists is missing
\* from it, and neither of them was cut off.
LEMMA MergeEvidenceFacts ==
    ASSUME NEW S, NEW s \in Seq(S), NEW t \in Seq(S), NEW n \in Nat
    PROVE  LET e == MergeEvidence(s, t, n) IN
           /\ e \in Seq(S) /\ ToSet(e) \subseteq ToSet(s) \cup ToSet(t)
           /\ Len(e) <= n /\ Distinct(Ids(e))
           /\ Len(e) < n =>
                 /\ \A x \in ToSet(s) : \E y \in ToSet(e) : y.span_id = x.span_id
                 /\ \A x \in ToSet(t) :
                       (\A y \in ToSet(t) : y.span_id = x.span_id => y = x) => x \in ToSet(e)
                 /\ Distinct(Ids(s)) => Len(s) < n
                 /\ Distinct(Ids(t)) => Len(t) < n
<1> DEFINE r == Merge(s, t)
           e == MergeEvidence(s, t, n)
           ids(u) == {x.span_id : x \in ToSet(u)}
<1>1. /\ r \in Seq(S) /\ ToSet(r) \subseteq ToSet(s) \cup ToSet(t) /\ Distinct(Ids(r))
      /\ \A x \in ToSet(s) \cup ToSet(t) : \E y \in ToSet(r) : y.span_id = x.span_id
      /\ \A x \in ToSet(t) :
            (\A y \in ToSet(t) : y.span_id = x.span_id => y = x) => x \in ToSet(r)
  BY MergeFacts
<1>2. e = Take(r, n)
  BY DEF MergeEvidence
<1> HIDE DEF e, r
<1>3. /\ e \in Seq(S) /\ Len(e) <= n /\ ToSet(e) \subseteq ToSet(r)
      /\ \A i \in 1..Len(e) : e[i] = r[i]
      /\ Len(e) <= Len(r)
      /\ Len(e) < n => ToSet(e) = ToSet(r)
      /\ Len(e) = IF n <= Len(r) THEN n ELSE Len(r)
  BY <1>1, <1>2, TakeFacts, TakeAll
<1>4. /\ DOMAIN e = 1..Len(e) /\ DOMAIN r = 1..Len(r)
      /\ Len(e) \in Nat /\ Len(r) \in Nat /\ Len(s) \in Nat /\ Len(t) \in Nat
  BY <1>1, <1>3, SequenceFacts
<1>5. Distinct(Ids(e))
  <2>1. \A i \in 1..Len(e) : i \in 1..Len(r) /\ Ids(e)[i] = Ids(r)[i]
    BY <1>3, <1>4 DEF Ids
  <2>2. DOMAIN Ids(e) = 1..Len(e) /\ DOMAIN Ids(r) = 1..Len(r)
    BY <1>4 DEF Ids
  <2> QED BY <1>1, <2>1, <2>2 DEF Distinct
<1>6. ASSUME NEW u \in {s, t}, Distinct(Ids(u))
      PROVE  Len(u) <= Len(r)
  <2>1. u \in Seq(S)
    OBVIOUS
  <2>2. ids(u) \subseteq ids(r)
    BY <1>1
  <2>3. Cardinality(ids(u)) = Len(u) /\ Cardinality(ids(r)) = Len(r)
    BY <1>1, <1>6, <2>1, IdsFacts
  <2>4. IsFiniteSet(ids(r))
    <3>1. Ids(r) \in Seq(ids(r)) /\ ToSet(Ids(r)) = ids(r)
      BY <1>1, IdsFacts
    <3> QED BY <3>1, SequenceFacts
  <2> HIDE DEF ids
  <2>5. Cardinality(ids(u)) <= Cardinality(ids(r))
    BY <2>2, <2>4, FS_Subset
  <2> QED BY <2>3, <2>5
<1>7. ASSUME Len(e) < n
      PROVE  /\ Distinct(Ids(s)) => Len(s) < n
             /\ Distinct(Ids(t)) => Len(t) < n
  <2>1. Len(r) < n
    <3>1. CASE n <= Len(r)
      BY <1>3, <1>4, <1>7, <3>1
    <3>2. CASE ~(n <= Len(r))
      BY <1>4, <3>2
    <3> QED BY <3>1, <3>2
  <2>2. ASSUME NEW u \in {s, t}, Distinct(Ids(u))
        PROVE  Len(u) < n
    <3>1. Len(u) <= Len(r) /\ Len(u) \in Nat
      BY <1>4, <1>6, <2>2
    <3> QED BY <1>4, <2>1, <3>1
  <2> QED BY <2>2
<1> QED BY <1>1, <1>3, <1>5, <1>7 DEF e

\* The slices of the orderings of a finite set.
LEMMA SliceFacts ==
    ASSUME NEW S, IsFiniteSet(S), NEW s \in SetToSeqs(S), NEW n \in Nat
    PROVE  LET r == Take(s, n) IN
           /\ r \in Seq(S) /\ Len(r) <= n /\ Distinct(r)
           /\ Len(r) < n => ToSet(r) = S
<1>1. s \in Seq(S) /\ Distinct(s) /\ ToSet(s) = S
  BY SeqsOfSet
<1> QED BY <1>1, TakeFacts, TakeAll

\* A slice that has room for all of a finite set is all of it.
LEMMA WholeSlice ==
    ASSUME NEW S, IsFiniteSet(S), NEW s \in SetToSeqs(S), NEW n \in Nat, Cardinality(S) <= n
    PROVE  LET r == Take(s, n) IN
           /\ r \in Seq(S) /\ Len(r) = Cardinality(S) /\ Distinct(r) /\ ToSet(r) = S
           /\ \A i \in 1..Len(s) : r[i] = s[i]
           /\ Len(r) = Len(s)
<1> DEFINE r == Take(s, n)
<1>1. s \in Seq(S) /\ Len(s) = Cardinality(S) /\ Distinct(s) /\ ToSet(s) = S
  BY SeqsOfSet
<1>2. Len(s) \in Nat /\ Len(s) <= n
  BY <1>1, LenProperties
<1>3. /\ r \in Seq(S)
      /\ Len(r) = IF n <= Len(s) THEN n ELSE Len(s)
      /\ \A i \in 1..Len(r) : r[i] = s[i]
  BY <1>1, TakeFacts
<1> HIDE DEF r
<1>4. Len(r) = Len(s)
  BY <1>2, <1>3
<1>5. DOMAIN r = 1..Len(r) /\ ToSet(r) = {r[i] : i \in 1..Len(r)}
  BY <1>3, SequenceFacts
<1>6. DOMAIN s = 1..Len(s) /\ ToSet(s) = {s[i] : i \in 1..Len(s)}
  BY <1>1, SequenceFacts
<1>7. ToSet(r) = ToSet(s)
  BY <1>3, <1>4, <1>5, <1>6
<1>8. Distinct(r)
  BY <1>1, <1>3, <1>4, <1>5, <1>6 DEF Distinct
<1> QED BY <1>1, <1>3, <1>4, <1>7, <1>8 DEF r

\* A search that finds nothing leaves the order of the other one at the top.
LEMMA FirstStaysFirst ==
    ASSUME NEW s \in Seq(Nat), Distinct(s), Len(s) >= 1
    PROVE  LET f == Fuse(<<>>, s) IN
           /\ f \in Seq(ToSet(s)) /\ Len(f) = Cardinality(ToSet(s)) /\ Distinct(f)
           /\ Len(f) >= 1 /\ f[1] = s[1]
<1> DEFINE f == Fuse(<<>>, s)
           found == Found(<<>>, s)
           n == Cardinality(found)
           first == s[1]
<1>1. <<>> \in Seq(Nat) /\ ToSet(<<>>) = {}
  BY DEF ToSet
<1>2. found = ToSet(s)
  BY <1>1 DEF Found
<1>3. /\ Len(s) \in Nat /\ DOMAIN s = 1..Len(s) /\ ToSet(s) \subseteq Nat
      /\ ToSet(s) = {s[i] : i \in 1..Len(s)}
  BY SequenceFacts
<1>4. first \in ToSet(s) /\ 1 \in 1..Len(s)
  BY <1>3
<1>5. /\ IsFiniteSet(found) /\ n \in Nat /\ f \in Seq(found) /\ Len(f) = n
      /\ \A i, j \in 1..n : f[i] = f[j] => i = j
      /\ \A x \in found : \E i \in 1..n : f[i] = x
      /\ \A i, j \in 1..n : Before(<<>>, s, f[i], f[j]) => i < j
  BY <1>1, FuseOrders
<1>6. \A x \in ToSet(s) : Rank(<<>>, x) = 0
  <2>1. \A x : Rank(<<>>, x) = 0 <=> x \notin ToSet(<<>>)
    BY <1>1, RankFacts
  <2> QED BY <1>1, <2>1
<1>7. \A x \in ToSet(s) : Rank(s, x) \in 1..Len(s) /\ s[Rank(s, x)] = x
  BY RankFacts
<1>8. Rank(s, first) = 1
  BY <1>3, <1>4, <1>7 DEF Distinct
<1>9. ASSUME NEW x \in ToSet(s), x # first
      PROVE  Before(<<>>, s, first, x)
  <2>1. Rank(s, x) \in Nat /\ 1 < Rank(s, x)
    BY <1>3, <1>7, <1>9
  <2>2. Above(Score(0, 1), Score(0, Rank(s, x)))
    BY <2>1, ScoreDominant
  <2> QED BY <1>4, <1>6, <1>8, <2>2 DEF Before, ScoreOf
<1> HIDE DEF f, found, n, first
<1>10. PICK i \in 1..n : f[i] = first
  BY <1>2, <1>4, <1>5
<1>11. 1 \in 1..n
  BY <1>5, <1>10
<1>12. f[1] = first
  <2> SUFFICES ASSUME f[1] # first PROVE FALSE
    OBVIOUS
  <2>1. f[1] \in ToSet(s)
    BY <1>2, <1>5, <1>11, ElementOfSeq
  <2>2. Before(<<>>, s, f[i], f[1])
    BY <1>9, <1>10, <2>1
  <2>3. i < 1
    BY <1>5, <1>10, <1>11, <2>2
  <2> QED BY <1>10, <2>3
<1>13. Distinct(f)
  BY <1>5, SequenceFacts DEF Distinct
<1> QED BY <1>2, <1>5, <1>11, <1>12, <1>13 DEF f, n, first

\* What find() may return.
LEMMA FindFacts ==
    ASSUME NEW rows, IsFiniteSet(rows), NEW rq, AssertionLimit(rq) \in Nat,
           NEW r \in FindResults(rows, rq)
    PROVE  /\ r \in Seq(Selected(rows, rq)) /\ Len(r) <= AssertionLimit(rq) /\ Distinct(r)
           /\ Len(r) < AssertionLimit(rq) => ToSet(r) = Selected(rows, rq)
<1>1. Selected(rows, rq) \in SUBSET rows
  BY DEF Selected
<1>2. IsFiniteSet(Selected(rows, rq))
  BY <1>1, FS_Subset
<1>3. PICK s \in Orderings(Selected(rows, rq), MoreRecent) : r = Take(s, AssertionLimit(rq))
  BY DEF FindResults
<1>4. s \in SetToSeqs(Selected(rows, rq))
  BY <1>3 DEF Orderings
<1> QED BY <1>2, <1>3, <1>4, SliceFacts

\* The spans of the tenant under these sources.
OfSources(rows, tenant, ids) == {s \in rows : s.tenant_id = tenant /\ s.source_id \in ids}

\* What get_source_evidence may return.
LEMMA SourceEvidenceFacts ==
    ASSUME NEW rows, IsFiniteSet(rows), NEW tenant, NEW ids, NEW n \in Nat,
           NEW r \in SourceEvidence(rows, tenant, ids, n)
    PROVE  LET found == OfSources(rows, tenant, ids) IN
           /\ r \in Seq(found) /\ Len(r) <= n /\ Distinct(r)
           /\ Len(r) < n => ToSet(r) = found
<1> DEFINE found == OfSources(rows, tenant, ids)
<1>1. IsFiniteSet(found)
  <2>1. found \in SUBSET rows
    BY DEF OfSources
  <2> QED BY <2>1, FS_Subset
<1>2. PICK s \in Orderings(found, EarlierInSource) : r = Take(s, n)
  BY DEF SourceEvidence, OfSources
<1> HIDE DEF found
<1>3. s \in SetToSeqs(found)
  BY <1>2 DEF Orderings
<1> QED BY <1>1, <1>2, <1>3, SliceFacts DEF found

\* What lexical_search may return.
LEMMA LexicalFacts ==
    ASSUME NEW rows, IsFiniteSet(rows), NEW rq, NEW n \in Nat,
           NEW r \in LexicalResults(rows, rq, n)
    PROVE  LET ids == {s.span_id : s \in {s \in rows : s.tenant_id = rq.tenant_id}} IN
           r \in Seq(ids) /\ Len(r) <= n /\ Distinct(r)
<1> DEFINE own == {s \in rows : s.tenant_id = rq.tenant_id}
           ids == {s.span_id : s \in own}
<1>1. IsFiniteSet(own)
  <2>1. own \in SUBSET rows
    OBVIOUS
  <2> QED BY <2>1, FS_Subset
<1>2. IsFiniteSet(ids)
  <2> DEFINE f == [s \in own |-> s.span_id]
  <2>1. f \in Surjection(own, ids)
    BY DEF Surjection
  <2> HIDE DEF f, own, ids
  <2> QED BY <1>1, <2>1, FS_Surjection
<1>b. CASE rq.blank
  <2>1. r = <<>> /\ Len(<<>>) = 0 /\ DOMAIN <<>> = {}
    BY <1>b DEF LexicalResults
  <2> HIDE DEF ids
  <2> QED BY <2>1, EmptySeq DEF Distinct
<1>f. CASE ~rq.blank
  <2> HIDE DEF ids
  <2>3. PICK s \in SetToAllKPermutations(ids) : r = Take(s, n)
    BY <1>f DEF LexicalResults, ids
  <2>4. PICK T \in SUBSET ids : s \in SetToSeqs(T)
    BY <2>3 DEF SetToAllKPermutations
  <2>5. IsFiniteSet(T)
    BY <1>2, FS_Subset
  <2>6. r \in Seq(T) /\ Len(r) <= n /\ Distinct(r)
    BY <2>3, <2>4, <2>5, SliceFacts
  <2>7. r \in Seq(ids)
    BY <2>6, SeqMonotonic
  <2> QED BY <2>6, <2>7 DEF ids
<1> QED BY <1>b, <1>f

\* What semantic_search may return.
LEMMA SemanticFacts ==
    ASSUME NEW rows, IsFiniteSet(rows), NEW rq, NEW n \in Nat,
           NEW r \in SemanticResults(rows, rq, n)
    PROVE  LET ids == {e.span_id : e \in Embedded(rows, rq)} IN
           /\ r \in Seq(ids) /\ Len(r) <= n /\ Distinct(r)
           /\ Len(r) < n => ToSet(r) = ids
<1> DEFINE own == Embedded(rows, rq)
           ids == {s.span_id : s \in own}
<1>1. IsFiniteSet(own)
  <2>1. own \in SUBSET rows
    BY DEF Embedded
  <2> QED BY <2>1, FS_Subset
<1>2. IsFiniteSet(ids)
  <2> DEFINE f == [s \in own |-> s.span_id]
  <2>1. f \in Surjection(own, ids)
    BY DEF Surjection
  <2> HIDE DEF f, own, ids
  <2> QED BY <1>1, <2>1, FS_Surjection
<1> HIDE DEF ids
<1>3. PICK s \in SetToSeqs(ids) : r = Take(s, n)
  BY DEF SemanticResults, ids
<1> QED BY <1>2, <1>3, SliceFacts DEF ids

-----------------------------------------------------------------------------
\* Assertions and their supersession.

\* A superseded row keeps its key and what it says; it holds at no instant at
\* which it did not hold before, and an empty interval stays empty.
LEMMA SupersedeKeeps ==
    ASSUME NEW row \in AssertionRecord, NEW a \in AssertionRecord
    PROVE  LET r == Supersede(row, a) IN
           /\ r \in AssertionRecord /\ KeyOf(r) = KeyOf(row)
           /\ r.tenant_id = row.tenant_id /\ r.content = row.content
           /\ \A t \in Instants : ValidAt(r, t) => ValidAt(row, t)
           /\ ~IntervalIsValid(row) => ~IntervalIsValid(r)
<1> DEFINE r == Supersede(row, a)
<1>1. /\ r \in AssertionRecord /\ r.tenant_id = row.tenant_id /\ r.content = row.content
      /\ r.assertion_id = row.assertion_id /\ r.valid_from = row.valid_from
      /\ r.valid_to = IF a.valid_from = None THEN row.valid_to
                      ELSE ClosedAt(row.valid_to, a.valid_from)
  BY DEF Supersede, ClosedAt, AssertionRecord, AssertionStatus
<1> HIDE DEF r
<1>2. /\ row.valid_from \in Instants \cup {None} /\ row.valid_to \in Instants \cup {None}
      /\ a.valid_from \in Instants \cup {None}
      /\ Instants \subseteq Int /\ None \notin Int
  BY InstantsAssumption, NoneAssumption DEF AssertionRecord
<1>3. ASSUME row.valid_to # None
      PROVE  /\ r.valid_to \in Int /\ r.valid_to # None /\ r.valid_to <= row.valid_to
             /\ \A t \in Instants : t < r.valid_to => t < row.valid_to
  <2>1. row.valid_to \in Int /\ (a.valid_from # None => a.valid_from \in Int)
    BY <1>2, <1>3
  <2>2. r.valid_to \in Int /\ r.valid_to <= row.valid_to
    BY <1>1, <1>3, <2>1 DEF ClosedAt
  <2> QED BY <1>2, <2>1, <2>2
<1>4. \A t \in Instants : ValidAt(r, t) => ValidAt(row, t)
  BY <1>1, <1>2, <1>3 DEF ValidAt
<1>5. ~IntervalIsValid(row) => ~IntervalIsValid(r)
  BY <1>1, <1>2, <1>3 DEF IntervalIsValid
<1>6. KeyOf(r) = KeyOf(row)
  BY <1>1 DEF KeyOf
<1> QED BY <1>1, <1>4, <1>5, <1>6 DEF r

-----------------------------------------------------------------------------
\* The graph.

\* The trails, level by level.
Single(from) == {[nodes |-> <<n>>, used |-> {}] : n \in from}

Steps(graph, t) ==
    {p \in (graph.relationships \ t.used) \X graph.nodes : p[1].ends = {Last(t.nodes), p[2]}}

Extended(t, p) == [nodes |-> Append(t.nodes, p[2]), used |-> t.used \cup {p[1]}]

Longer(graph, T) == UNION {{Extended(t, p) : p \in Steps(graph, t)} : t \in T}

\* There are three levels of them.
LEMMA TrailsUnrolled ==
    ASSUME NEW graph, NEW from
    PROVE  LET one == Longer(graph, Single(from))  two == Longer(graph, one) IN
           Trails(graph, from) = (one \cup two) \cup Longer(graph, two)
<1> DEFINE start == Single(from)
           next(T) == Longer(graph, T)
           one == next(start)  two == next(one)
           ofLength[k \in 0..MAX_TRAVERSAL_DEPTH] ==
                IF k = 0 THEN start ELSE next(ofLength[k-1])
<1>1. Trails(graph, from) = UNION {ofLength[k] : k \in 1..MAX_TRAVERSAL_DEPTH}
  BY DEF Trails, Single, Steps, Extended, Longer
<1> HIDE DEF next, start
<1>2. ofLength = [k \in 0..3 |-> IF k = 0 THEN start ELSE next(ofLength[k-1])]
  <2> DEFINE g == [k \in 0..3 |-> IF k = 0 THEN start ELSE IF k = 1 THEN one
                                  ELSE IF k = 2 THEN two ELSE next(two)]
  <2>1. g[0] = start /\ g[1] = one /\ g[2] = two /\ g[3] = next(two)
    OBVIOUS
  <2>2. \A k \in 0..3 : k = 0 \/ k = 1 \/ k = 2 \/ k = 3
    OBVIOUS
  <2>3. g = [k \in 0..3 |-> IF k = 0 THEN start ELSE next(g[k-1])]
    <3> SUFFICES ASSUME NEW k \in 0..3
                 PROVE  g[k] = IF k = 0 THEN start ELSE next(g[k-1])
      OBVIOUS
    <3>1. (k = 1 => g[k-1] = start) /\ (k = 2 => g[k-1] = one) /\ (k = 3 => g[k-1] = two)
      BY <2>1
    <3> QED BY <2>1, <2>2, <3>1
  <2>4. \E f : f = [k \in 0..3 |-> IF k = 0 THEN start ELSE next(f[k-1])]
    BY <2>3
  <2> QED BY <2>4 DEF MAX_TRAVERSAL_DEPTH
<1> HIDE DEF ofLength
<1>3. ofLength[1] = one /\ ofLength[2] = two /\ ofLength[3] = next(two)
  BY <1>2
<1>4. UNION {ofLength[k] : k \in 1..3} = (ofLength[1] \cup ofLength[2]) \cup ofLength[3]
  <2>1. \A k \in 1..3 : k = 1 \/ k = 2 \/ k = 3
    OBVIOUS
  <2>2. 1 \in 1..3 /\ 2 \in 1..3 /\ 3 \in 1..3
    OBVIOUS
  <2> QED BY <2>1, <2>2
<1> QED BY <1>1, <1>3, <1>4 DEF MAX_TRAVERSAL_DEPTH, next, start

\* A finite graph has finitely many trails of at most three relationships.
LEMMA TrailsFinite ==
    ASSUME NEW graph, IsFiniteSet(graph.nodes), IsFiniteSet(graph.relationships),
           NEW from, IsFiniteSet(from)
    PROVE  IsFiniteSet(Trails(graph, from))
<1> DEFINE start == Single(from)
           next(T) == Longer(graph, T)
           one == next(start)  two == next(one)
<1>1. IsFiniteSet(start)
  <2> DEFINE f == [n \in from |-> [nodes |-> <<n>>, used |-> {}]]
  <2>1. f \in Surjection(from, start)
    BY DEF Surjection, Single
  <2> HIDE DEF f, start
  <2> QED BY <2>1, FS_Surjection
<1>2. ASSUME NEW T, IsFiniteSet(T)
      PROVE  IsFiniteSet(next(T))
  <2>1. ASSUME NEW t \in T
        PROVE  IsFiniteSet({Extended(t, p) : p \in Steps(graph, t)})
    <3>1. IsFiniteSet(graph.relationships \ t.used)
      BY FS_Difference
    <3>2. IsFiniteSet((graph.relationships \ t.used) \X graph.nodes)
      BY <3>1, FS_Product
    <3>3. IsFiniteSet(Steps(graph, t))
      <4>1. Steps(graph, t) \subseteq (graph.relationships \ t.used) \X graph.nodes
        BY DEF Steps
      <4> QED BY <3>2, <4>1, FS_Subset
    <3> DEFINE S == Steps(graph, t)
               R == {Extended(t, p) : p \in S}
               f == [p \in S |-> Extended(t, p)]
    <3>4. f \in Surjection(S, R)
      BY DEF Surjection
    <3> HIDE DEF f, R
    <3>5. IsFiniteSet(R)
      BY <3>3, <3>4, FS_Surjection
    <3> QED BY <3>5 DEF R
  <2> DEFINE more(t) == {Extended(t, p) : p \in Steps(graph, t)}
             U == {more(t) : t \in T}
             f == [t \in T |-> more(t)]
  <2>2. f \in Surjection(T, U)
    BY DEF Surjection
  <2>3. \A V \in U : IsFiniteSet(V)
    BY <2>1
  <2> HIDE DEF f, U
  <2>4. IsFiniteSet(U)
    BY <1>2, <2>2, FS_Surjection
  <2>5. IsFiniteSet(UNION U)
    BY <2>3, <2>4, FS_UNION
  <2> QED BY <2>5 DEF U, Longer
<1> HIDE DEF next, start
<1>3. IsFiniteSet(one) /\ IsFiniteSet(two)
  BY <1>1, <1>2
<1>4. IsFiniteSet(next(two))
  BY <1>2, <1>3
<1>5. IsFiniteSet(one \cup two)
  BY <1>3, FS_Union
<1>6. IsFiniteSet((one \cup two) \cup next(two))
  BY <1>4, <1>5, FS_Union
<1> QED BY <1>6, TrailsUnrolled DEF next, start

\* The relationships of a bundle: no more than asked for, each along nodes of
\* the tenant.
LEMMA RelatedFacts ==
    ASSUME NEW graph, IsFiniteSet(graph.nodes), IsFiniteSet(graph.relationships),
           NEW tenant, NEW ids, NEW limit \in Nat,
           NEW paths \in Related(graph, tenant, ids, limit)
    PROVE  /\ Cardinality(paths) <= limit
           /\ \A p \in paths : WithinTenant(p, tenant)
<1> DEFINE trails == Trails(graph, Starts(graph, tenant, ids))
           all == {p \in {t.nodes : t \in trails} : WithinTenant(p, tenant)}
<1>1. IsFiniteSet(trails)
  <2>1. IsFiniteSet(Starts(graph, tenant, ids))
    <3>1. Starts(graph, tenant, ids) \subseteq graph.nodes
      BY DEF Starts
    <3> QED BY <3>1, FS_Subset
  <2> QED BY <2>1, TrailsFinite
<1> HIDE DEF trails
<1>2. IsFiniteSet(all)
  <2> DEFINE U == {t.nodes : t \in trails}  f == [t \in trails |-> t.nodes]
  <2>1. f \in Surjection(trails, U)
    BY DEF Surjection
  <2> HIDE DEF f, U
  <2>2. IsFiniteSet(U)
    BY <1>1, <2>1, FS_Surjection
  <2>3. all \subseteq U
    BY DEF U
  <2> HIDE DEF all
  <2> QED BY <2>2, <2>3, FS_Subset
<1>3. paths \in Cutoff(all, limit)
  BY DEF Related, trails
<1>4. \A p \in all : WithinTenant(p, tenant)
  OBVIOUS
<1> HIDE DEF all
<1>5. Cardinality(all) \in Nat
  BY <1>2, FS_CardinalityType
<1>6. paths \in SUBSET all /\ Cardinality(paths) = Min({limit, Cardinality(all)})
  BY <1>3 DEF Cutoff, kSubset
<1> DEFINE c == Cardinality(all)
<1> HIDE DEF c
<1>7. Min({limit, c}) <= limit
  BY <1>5, MinMax DEF c
<1> QED BY <1>4, <1>6, <1>7 DEF c

-----------------------------------------------------------------------------
\* What other tenants store is not seen.

\* What belongs to a tenant: rows, and the part of a graph between its nodes.
Own(rows, tenant) == {r \in rows : r.tenant_id = tenant}

OwnGraph(graph, tenant) ==
    [nodes |-> Own(graph.nodes, tenant),
     relationships |-> {r \in graph.relationships : r.ends \subseteq Own(graph.nodes, tenant)}]

\* A trail through nodes of the tenant only.
OwnTrail(t, tenant) == WithinTenant(t.nodes, tenant)

\* A trail that has begun somewhere in the graph.
Rooted(graph, t) == t.nodes \in Seq(graph.nodes) /\ Len(t.nodes) \in Nat \ {0}

\* The trails that are one longer and stay with the tenant are those of its own graph.
LEMMA OwnLonger ==
    ASSUME NEW graph, NEW tenant, NEW T, \A t \in T : Rooted(graph, t)
    PROVE  /\ \A t \in Longer(graph, T) : Rooted(graph, t)
           /\ {t \in Longer(graph, T) : OwnTrail(t, tenant)}
                 = Longer(OwnGraph(graph, tenant), {t \in T : OwnTrail(t, tenant)})
<1> DEFINE h == OwnGraph(graph, tenant)
           N == Own(graph.nodes, tenant)
<1>1. h.nodes = N /\ h.relationships = {r \in graph.relationships : r.ends \subseteq N}
  BY DEF OwnGraph
<1>2. ASSUME NEW t \in T, NEW p \in Steps(graph, t)
      PROVE  /\ Rooted(graph, Extended(t, p))
             /\ OwnTrail(Extended(t, p), tenant) <=> OwnTrail(t, tenant) /\ p[2] \in N
             /\ OwnTrail(t, tenant) => Last(t.nodes) \in N
  <2> DEFINE s == t.nodes
             e == p[2]
             u == Append(s, e)
  <2>1. s \in Seq(graph.nodes) /\ Len(s) \in Nat \ {0} /\ e \in graph.nodes
    BY DEF Rooted, Steps
  <2>2. Extended(t, p).nodes = u
    BY DEF Extended
  <2> HIDE DEF s, e
  <2>3. /\ u \in Seq(graph.nodes) /\ Len(u) = Len(s) + 1
        /\ \A i \in 1..Len(s) : u[i] = s[i]
        /\ u[Len(s) + 1] = e
    <3>1. /\ u \in Seq(graph.nodes) /\ Len(u) = Len(s) + 1
          /\ \A i \in 1..Len(s) : u[i] = s[i]
          /\ u[Len(u)] = e
      BY <2>1, AppendProperties
    <3> QED BY <3>1
  <2> HIDE DEF u
  <2>4. /\ ToSet(s) = {s[i] : i \in 1..Len(s)} /\ DOMAIN s = 1..Len(s)
        /\ ToSet(s) \subseteq graph.nodes
    BY <2>1, SequenceFacts
  <2>4a. ToSet(u) = {u[i] : i \in 1..Len(u)}
    BY <2>3, SequenceFacts
  <2>5. \A i \in 1..Len(u) : i \in 1..Len(s) \/ i = Len(s) + 1
    BY <2>1, <2>3
  <2>6. /\ Len(s) + 1 \in 1..Len(u) /\ \A i \in 1..Len(s) : i \in 1..Len(u)
    BY <2>1, <2>3
  <2>7. ToSet(u) = ToSet(s) \cup {e}
    BY <2>3, <2>4, <2>4a, <2>5, <2>6
  <2>8. Last(s) \in ToSet(s)
    BY <2>1, <2>4 DEF Last
  <2>9. Rooted(graph, Extended(t, p))
    BY <2>1, <2>2, <2>3 DEF Rooted
  <2>10. OwnTrail(Extended(t, p), tenant) <=> OwnTrail(t, tenant) /\ e \in N
    BY <2>1, <2>2, <2>7 DEF OwnTrail, WithinTenant, Own, s
  <2>11. OwnTrail(t, tenant) => Last(t.nodes) \in N
    BY <2>4, <2>8 DEF OwnTrail, WithinTenant, Own, s
  <2> QED BY <2>9, <2>10, <2>11 DEF e
<1>3. ASSUME NEW t \in T, OwnTrail(t, tenant), NEW p
      PROVE  p \in Steps(h, t) <=> p \in Steps(graph, t) /\ p[2] \in N
  <2>1. ASSUME p \in Steps(h, t)
        PROVE  p \in Steps(graph, t) /\ p[2] \in N
    BY <1>1, <2>1 DEF Steps, Own
  <2>2. ASSUME p \in Steps(graph, t), p[2] \in N
        PROVE  p \in Steps(h, t)
    <3>1. Last(t.nodes) \in N
      BY <1>2, <1>3, <2>2
    <3>2. p \in (graph.relationships \ t.used) \X graph.nodes /\ p[1].ends = {Last(t.nodes), p[2]}
      BY <2>2 DEF Steps
    <3>3. p[1].ends \subseteq N
      BY <2>2, <3>1, <3>2
    <3>4. p \in (h.relationships \ t.used) \X h.nodes
      BY <1>1, <2>2, <3>2, <3>3
    <3> QED BY <3>2, <3>4 DEF Steps
  <2> QED BY <2>1, <2>2
<1>4. \A g, S, x : x \in Longer(g, S) <=> \E t \in S : \E p \in Steps(g, t) : x = Extended(t, p)
  BY DEF Longer
<1> HIDE DEF h, N
<1>5. \A t \in Longer(graph, T) : Rooted(graph, t)
  BY <1>2, <1>4
<1>6. ASSUME NEW x
      PROVE  x \in {t \in Longer(graph, T) : OwnTrail(t, tenant)}
                 <=> x \in Longer(h, {t \in T : OwnTrail(t, tenant)})
  BY <1>2, <1>3, <1>4
<1> QED BY <1>5, <1>6 DEF h

\* The graph's answer to a tenant is that of the tenant's own part of it.
LEMMA RelatedInOwnGraph ==
    ASSUME NEW graph, NEW tenant, NEW ids, NEW limit
    PROVE  Related(graph, tenant, ids, limit)
              = Related(OwnGraph(graph, tenant), tenant, ids, limit)
<1> DEFINE h == OwnGraph(graph, tenant)
           own(T) == {t \in T : OwnTrail(t, tenant)}
           from == Starts(graph, tenant, ids)
           one == Longer(graph, Single(from))
           two == Longer(graph, one)
           three == Longer(graph, two)
           paths(T) == {p \in {t.nodes : t \in T} : WithinTenant(p, tenant)}
<1>1. Starts(h, tenant, ids) = from
  BY DEF Starts, OwnGraph, Own
<1>2. /\ \A t \in Single(from) : Rooted(graph, t)
      /\ own(Single(from)) = Single(from)
  <2>1. ASSUME NEW n \in from
        PROVE  /\ <<n>> \in Seq(graph.nodes) /\ Len(<<n>>) = 1
               /\ WithinTenant(<<n>>, tenant)
    <3>1. n \in graph.nodes /\ n.tenant_id = tenant
      BY DEF Starts
    <3>2. <<n>> \in Seq(graph.nodes) /\ Len(<<n>>) = 1
      <4> DEFINE M == graph.nodes
      <4>1. n \in M
        BY <3>1
      <4> HIDE DEF M
      <4>2. <<n>> \in Seq(M) /\ Len(<<n>>) = 1
        BY <4>1
      <4> QED BY <4>2 DEF M
    <3>3. \A m \in ToSet(<<n>>) : m = n
      BY DEF ToSet
    <3> QED BY <3>1, <3>2, <3>3 DEF WithinTenant
  <2>2. \A t \in Single(from) : \E n \in from : t.nodes = <<n>>
    BY DEF Single
  <2> HIDE DEF from
  <2>3. ASSUME NEW t \in Single(from)
        PROVE  Rooted(graph, t) /\ OwnTrail(t, tenant)
    <3>1. PICK n \in from : t.nodes = <<n>>
      BY <2>2
    <3> QED BY <2>1, <3>1 DEF Rooted, OwnTrail
  <2> QED BY <2>3
<1> HIDE DEF from
<1>3. /\ \A t \in one : Rooted(graph, t)
      /\ own(one) = Longer(h, Single(from))
  BY <1>2, OwnLonger
<1> HIDE DEF one
<1>4. /\ \A t \in two : Rooted(graph, t)
      /\ own(two) = Longer(h, own(one))
  BY <1>3, OwnLonger
<1> HIDE DEF two
<1>5. own(three) = Longer(h, own(two))
  BY <1>4, OwnLonger
<1> HIDE DEF three
<1>6. Trails(graph, from) = (one \cup two) \cup three
  BY TrailsUnrolled DEF one, two, three
<1>7. Trails(h, from) = (own(one) \cup own(two)) \cup own(three)
  BY <1>3, <1>4, <1>5, TrailsUnrolled
<1>8. Trails(h, from) = own(Trails(graph, from))
  BY <1>6, <1>7
<1>9. paths(Trails(h, from)) = paths(Trails(graph, from))
  BY <1>8 DEF OwnTrail
<1> QED BY <1>1, <1>9 DEF Related, from

\* Every read of a build gives what it would give if the database and the graph held
\* nothing but the rows, the nodes and the relationships of the tenant that asks
\* (dd/storage/postgres.py find, get_for_sources; dd/retrieval/postgres.py;
\* dd/graph/neo4j_repo.py): what others store cannot take a place within a limit,
\* change an order, or make a read fail.
THEOREM ReadsAreOwn ==
    ASSUME NEW request, NEW rows, NEW spans, NEW embeddings, NEW graph,
           NEW ids, NEW limit
    PROVE  LET tenant == request.tenant_id IN
           /\ FindResults(rows, request) = FindResults(Own(rows, tenant), request)
           /\ SourceEvidence(spans, tenant, ids, limit)
                 = SourceEvidence(Own(spans, tenant), tenant, ids, limit)
           /\ LexicalResults(spans, request, limit)
                 = LexicalResults(Own(spans, tenant), request, limit)
           /\ Comparable(embeddings, request) <=> Comparable(Own(embeddings, tenant), request)
           /\ SemanticResults(embeddings, request, limit)
                 = SemanticResults(Own(embeddings, tenant), request, limit)
           /\ Related(graph, tenant, ids, limit)
                 = Related(OwnGraph(graph, tenant), tenant, ids, limit)
<1> DEFINE tenant == request.tenant_id
<1>1. Selected(rows, request) = Selected(Own(rows, tenant), request)
  BY DEF Selected, Own
<1>2. {s \in spans : s.tenant_id = tenant /\ s.source_id \in ids}
         = {s \in Own(spans, tenant) : s.tenant_id = tenant /\ s.source_id \in ids}
  BY DEF Own
<1>3. {r \in spans : r.tenant_id = tenant} = {r \in Own(spans, tenant) : r.tenant_id = tenant}
  BY DEF Own
<1>4. Embedded(embeddings, request) = Embedded(Own(embeddings, tenant), request)
  BY DEF Embedded, Own
<1>5. FindResults(rows, request) = FindResults(Own(rows, tenant), request)
  BY <1>1 DEF FindResults
<1>6. SourceEvidence(spans, tenant, ids, limit)
         = SourceEvidence(Own(spans, tenant), tenant, ids, limit)
  BY <1>2 DEF SourceEvidence
<1>7. LexicalResults(spans, request, limit) = LexicalResults(Own(spans, tenant), request, limit)
  BY <1>3 DEF LexicalResults
<1>8. Comparable(embeddings, request) <=> Comparable(Own(embeddings, tenant), request)
  BY <1>4 DEF Comparable
<1>9. SemanticResults(embeddings, request, limit)
         = SemanticResults(Own(embeddings, tenant), request, limit)
  BY <1>4 DEF SemanticResults
<1> QED BY <1>5, <1>6, <1>7, <1>8, <1>9, RelatedInOwnGraph
=============================================================================

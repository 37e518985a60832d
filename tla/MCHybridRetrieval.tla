------------------------- MODULE MCHybridRetrieval -------------------------
(***************************************************************************)
(* HybridRetrieval for TLC: all short rankings of three spans, and long    *)
(* ones in which spans 1 and 2 stand at chosen ranks among spans that only *)
(* one search finds; and a limit that is refused.                          *)
(***************************************************************************)
EXTENDS HybridRetrieval

MCLimits == {0, 2, 8}

Short == SetToAllKPermutations({1, 2, 3})

Length == 80

\* Span 1 at rank i, span 2 at rank j, or at none when j is 0.
Long(base, i, j) ==
    [r \in 1..Length |-> IF r = i THEN 1 ELSE IF r = j THEN 2 ELSE base + r]

\* First and last of the candidates, beyond them, and two in the middle.
LongRankings(base) ==
    {Long(base, 1, 0), Long(base, 24, 0), Long(base, 24, 1), Long(base, 70, 1),
     Long(base, 12, 3)}

MCLexicalRankings == Short \cup LongRankings(100)

MCSemanticRankings == Short \cup LongRankings(200)
=============================================================================

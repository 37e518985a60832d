SPECIFICATION Spec
CONSTANTS
    rrf_k = 60
    Limits <- MCLimits
    LexicalRankings <- MCLexicalRankings
    SemanticRankings <- MCSemanticRankings
INVARIANTS
    DominantFirst
    AgreementWins
    AnswerFull
CHECK_DEADLOCK FALSE

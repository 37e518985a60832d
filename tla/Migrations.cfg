SPECIFICATION Spec
CONSTANTS
    op1 = op1
    op2 = op2
    Operators = {op1, op2}
    None = None
SYMMETRY Symmetry
INVARIANTS
    SchemaMatchesRevision
    RefusedOnlyAtMissingIndex

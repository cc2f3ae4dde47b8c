SPECIFICATION Spec
CONSTANTS
    a1 = a1
    a2 = a2
    a3 = a3
    flash = flash
    other = other
    Articles = {a1, a2, a3}
    Place <- MCPlace
    Searches = {s1}
    Places = {1, 2}
    Models = {flash, other}
    Fallback = flash
    NativeDims = {768, 3072}
    ColumnDim = 768
    RawLimits <- MCRawLimits
    DefaultLimit = 1
    MaxLimit = 2
INVARIANTS
    TypeOK
    VectorsFit
    FailsAfterBothModels
    AnswerRankedWithinLimit

SPECIFICATION FairSpec
CONSTANTS
    Messages <- MCMessages
    MaxUpdates = 3
    MaxBoots = 2
INVARIANTS
    TypeOK
    ConfirmedWereHandled
    EffectsInOrder
    SuccessIsReal
PROPERTIES
    EveryCommandRuns
    StopReturns
CHECK_DEADLOCK FALSE

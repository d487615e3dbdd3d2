CONSTANTS
    MaxKnown = 2
    MaxUnderWay = 1
    ReadsFail = TRUE
SPECIFICATION HiringSpec
INVARIANTS TechTypeOK KnownAfterReload OfferIsWithinReach

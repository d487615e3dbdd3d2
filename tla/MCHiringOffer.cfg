CONSTANTS
    MaxKnown = 2
    MaxUnderWay = 1
    ReadsFail = FALSE
SPECIFICATION HiringSpec
INVARIANTS HiresWhatItOffers

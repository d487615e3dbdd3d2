CONSTANTS
    Users = {u1, u2}
    Cities = {c1, c2, c3}
    NoCity = NoCity
    MaxGame = 1
    MaxCreates = 2
    MaxFaults = 1
    StableScan = FALSE
SPECIFICATION FairSpec
INVARIANTS TurnNamesItsTribe SharedTribeNeedsALostStore SeatHasTribe CapitalsApart FinishedMeansOneOwner
PROPERTIES TribeIsKept TurnsGoRound

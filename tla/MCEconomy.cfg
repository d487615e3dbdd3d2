CONSTANTS
    c1 = c1
    c2 = c2
    Cities = {c1, c2}
    Squares <- Block
    Around <- Reach
    Territory <- Claims
    Near <- BlockNear
    Resources = {"Farm", "Fish"}
    Kinds = {"Mill"}
    Learnable = {"Farming", "Construction", "Philosophy"}
    Modes = {TRUE, FALSE}
    StartBalance = 25
    MaxStack = 1
    MaxBalance = 25
SPECIFICATION FairSpec
INVARIANTS CitiesGrowSoundly NoDebtPilesUp
PROPERTIES CitiesSettle

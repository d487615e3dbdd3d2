CONSTANTS
    Size = 6
    Tribes = {1, 2}
    Capital <- TwoCapitals
    Terrain <- Land
    Climbers = {2}
    Hired = {"Rider", "Priest"}
    Growing <- Mines
    MaxPaid = 3
SPECIFICATION Spec
INVARIANTS CollectedIsGone

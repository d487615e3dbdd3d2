SPECIFICATION Spec
CONSTANTS
    Size = 7
    ChunkInSide = 2
    SeaSquares <- MCSeaSquares
    SeaCounts = {2, 3}
    TriesPerSea = 2
    CityCounts = {4}
    Rolls <- MCRolls
    Finds <- MCFinds
    MaxSaves = 3
INVARIANTS MapIsSound CitiesStandApart ResourceHasItsTerrain
PROPERTIES WorldIsSettled GenerationEnds

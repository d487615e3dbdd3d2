SPECIFICATION Spec
CONSTANTS
    a1 = a1
    b1 = b1
    Nobody = Nobody
    Units = {a1, b1}
    Tribes <- MCTribes
    Size = 7
    Terrain <- MCTerrain
    CityOf <- DuelCity
    Roads <- MCRoads
    Ports <- MCPorts
    Climbers = {2, 3}
    Floaters = {}
    Sheltered <- MCSheltered
    Armies <- MCArmies
    MaxHealth <- MCMaxHealth
INVARIANTS KillsAreLosses DuelIsShort KeepsToItsElement
PROPERTIES FightsEndCleanly
CHECK_DEADLOCK FALSE

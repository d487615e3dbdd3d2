CONSTANTS
    MaxGame = 2
    MaxTribe = 2
    Nations = {1}
    MaxNet = 2
SPECIFICATION FairSpec
INVARIANTS TypeOK ShowsItsGame 
PROPERTIES StaysInItsGame TurnIsSeen
CHECK_DEADLOCK FALSE

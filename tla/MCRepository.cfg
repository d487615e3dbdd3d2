SPECIFICATION Spec
CONSTANTS
    MaxRequests = 2
    MaxFaults = 2
INVARIANTS RequestsEndClean AnswersAreTrue
PROPERTIES ActionClearsFlag IsAStore

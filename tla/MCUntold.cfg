SPECIFICATION FairSpec
CONSTANTS
    MaxModels = 2
    MaxChunks = 1
    Faults = {"reload"}
PROPERTIES
    FailedRunTold

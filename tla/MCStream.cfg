SPECIFICATION ReaderSpec
CONSTANTS
    MaxModels = 2
    MaxChunks = 3
    Faults = {"commit", "reload", "checkpoint"}
INVARIANTS
    ReaderTypeOK
    StreamOrdered
    OneVoice
    ToldIsStored
    ShownIsStored
PROPERTIES
    StreamAnswered

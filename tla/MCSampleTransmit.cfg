SPECIFICATION FairSpec
CONSTANTS
    ByteSize = 4
    Slots <- MCSlots
    Docs <- MCDocs
    MaxFaults = 2
INVARIANTS
    TypeOK
    Settled
    NothingRefused
PROPERTIES
    TransmitEnds
CHECK_DEADLOCK FALSE

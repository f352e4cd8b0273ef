SPECIFICATION Spec
CONSTANTS
    SectorWords = 2
    MaxSectors = 2
    MaxSecno = 1
    RamWords = 2
    LoSpan = 2
    HiSpan = 2
    Val <- MCVal
    Files <- MCFiles
    ZeroWord = 0
    NoMem = 1
    UsesBusyBit = FALSE
INVARIANTS InFlightInBounds InterruptWired TransferExact
PROPERTIES TransferTerminates

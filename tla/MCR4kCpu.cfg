SPECIFICATION Spec
CONSTANTS
    PageWords = 4
    Pages = 128
    Entries = 3
    IndexSize = 8
    Masks = {1, 4}
    LineWords = 4
    CountSize = 8
    ResetAt = 24
    BootBase = 48
    Offset = 8
    Garbage = {0, 255}
    Programs <- MCPrograms
INVARIANTS TlbInstructionsAgree LinkFresh
PROPERTIES ExceptionsExact TlbwrSafe MissServed
CHECK_DEADLOCK FALSE

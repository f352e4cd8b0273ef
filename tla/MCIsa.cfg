\* Four-bit words, every SH-2E instruction word.
SPECIFICATION Spec
CONSTANTS
    Words4 <- MCWords4
    Bytes8 <- MCBytes8
    ShWords <- MCShWords
    MipsWords <- MCMipsWords
    RvWords <- MCRvWords
INVARIANTS ArithmeticExact AccessesExact PreciseFaults DecodersAgree
CHECK_DEADLOCK FALSE

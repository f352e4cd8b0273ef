SPECIFICATION Spec
CONSTANTS
    Xlen = 32
    Half = 1
    Hpm = {3}
    AddrBits = 3
    Programs <- MCPrograms
PROPERTIES InterruptsByTheRule TrapsExact ControlConfined ArmedTimerWakes
CHECK_DEADLOCK FALSE

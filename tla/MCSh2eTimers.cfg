SPECIFICATION Spec
CONSTANTS
    Sources <- MCSources
    Pool <- MCPool
    MaxPri = 2
    BootPri <- MCBootPri
    TcntSize = 3
    WdtPeriod <- MCWdtPeriod
    Digit = 2
    CmtPeriod <- MCCmtPeriod
    WdtInt = 254
    CmtInt <- MCCmtInt
    Cycles = {1, 3}
    Garbage = {0, 9}
    WdtValues = {0, 2}
    CmtValues = {0, 3}
    Scenes = {"intc", "wdt", "cmt0", "cmt1"}
INVARIANTS ArbitrationCorrect OnTime ResetCauseKept
PROPERTIES RequestsExact WatchdogBites

SPECIFICATION DmacSpec
CONSTANTS
    Channels = {0, 2}
    Requests = {"dev"}
    Programs <- MCPrograms
    CountMod = 3
    MaxCount = 2
PROPERTIES NoTransferWhenStopped RequestPerTransfer CycleStealEndIsFinal
CHECK_DEADLOCK FALSE

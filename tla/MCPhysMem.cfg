SPECIFICATION RunSpec
CONSTANTS
    Frames = 2
    FrameWords = 2
    LineWords = 2
    Val <- MCVal
    Zero = 0
    Rom = {1}
    Harts <- MCHarts
    Arch <- MCArch
    Fetchers = {"rv32"}
    r1 = r1
    m1 = m1
INVARIANTS ScListExact Rv32Atomic FetchFresh

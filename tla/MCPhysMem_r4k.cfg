SPECIFICATION RunSpec
CONSTANTS
    Frames = 1
    FrameWords = 2
    LineWords = 2
    Val <- MCVal
    Zero = 0
    Rom = {}
    Harts <- MCHartsM
    Arch <- MCArchM
    Fetchers = {}
    r1 = r1
    m1 = m1
INVARIANTS R4kAtomic

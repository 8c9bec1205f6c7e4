CONSTANTS
    Half = 1
    WarningFrames = 1
    HardLimit = 1
    MaxAge = 1
    PliLimit = 1
    SlowPli = 2
    Recovery = 1
    MaxBackoff = 1
    MaxQueue = 2
    NoFrame = NoFrame
SPECIFICATION FairSpec
INVARIANTS FlapGuardHolds
PROPERTIES DecodesChain DecodingResumes StopReturns

CONSTANTS
    Targets <- MCTargets
    MinBitrate = 10
    CongestedWindows = 2
    CleanWindows = 2
    Horizon = 2
    MaxSize = 2
SPECIFICATION FairSpec
INVARIANTS SendAccounting
PROPERTIES AdmissionReopens EncoderSettles

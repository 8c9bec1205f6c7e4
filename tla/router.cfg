CONSTANTS
    Half = 3
    MaxHeldFrames = 1
    MaxBytes = 2
    MaxAborted = 1
    MinHold = 1
    MaxHold = 1
    RttHoldFactor = 1
    HoldExtra = 1
    TrustHolds = 1
    TrustFloor = 1
    Rtts = {0}
    Sizes = {1}
    BaseBackoff = 1
    MaxBackoff = 2
    NoFrame = NoFrame
    SentFrames <- KeyframesAndDeltas
    MaxPending = 2
SPECIFICATION FairRouterSpec
PROPERTIES DecoderSeesChain NeedIsRequested

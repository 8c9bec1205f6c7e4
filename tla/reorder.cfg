CONSTANTS
    Half = 4
    MaxHeldFrames = 2
    MaxBytes = 3
    MaxAborted = 1
    MinHold = 1
    MaxHold = 1
    RttHoldFactor = 1
    HoldExtra = 1
    TrustHolds = 1
    TrustFloor = 2
    Rtts = {0}
    Sizes = {1, 2}
SPECIFICATION FairSpec
INVARIANTS BookkeepingExact HeldBeyondGap QuietOnlyForKeyframe
PROPERTIES ImplementsDelivery GapIsResolved

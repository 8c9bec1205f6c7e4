CONSTANTS
    Viewers = {v1}
    FrameStreams = {v1}
    Budgets = {0, 1, 2}
    DeltaBytes = 1
    KeyBytes = 2
    Cooldown = 1
    FirstBackoff = 1
    MaxBackoff = 2
    HealthyFrames = 1
    MaxOut = 2
SPECIFICATION FairSpec
INVARIANTS ForwardAccounting OpenGateIsWhole NothingStaleAheadOfKeyframe
PROPERTIES GateReopens

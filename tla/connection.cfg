CONSTANTS
    Servers = {s1}
    Channels = {c1}
    NoServer = NoServer
    NoChannel = NoChannel
    OldCert = OldCert
    FlapLimit = 2
    MaxClicks = 4
SPECIFICATION FairSpec
INVARIANTS LoginDiscipline EndIsFinal
PROPERTIES RejoinsLostChannel KeepsDialling

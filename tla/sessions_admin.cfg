SPECIFICATION FairSpec
CONSTANTS
    Sessions = {s1, s2}
    Users = {u1, u2}
    Channels = {c1}
    Sources = {screen}
    Admins = {u1}
    MaxUsers = 0
    NoSession = NoSession
    NoUser = NoUser
    NoChannel = NoChannel
CHECK_DEADLOCK FALSE
INVARIANTS IngressOnlyWhileRegistered
PROPERTIES DepartureIsAnnounced

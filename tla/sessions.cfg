SPECIFICATION Spec
CONSTANTS
    Sessions = {s1, s2, s3}
    Users = {u1, u2}
    Channels = {c1, c2}
    Sources = {screen}
    Admins = {}
    MaxUsers = 0
    NoSession = NoSession
    NoUser = NoUser
    NoChannel = NoChannel
SYMMETRY Symmetry
CHECK_DEADLOCK FALSE
INVARIANTS TablesAgree NoticesExact

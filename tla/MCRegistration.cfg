CONSTANTS
    Extras = {"labeled-response"}
    Ladder <- MCLadder
    MaxNickLen = 4
    MinCap = 4
    Credentials <- MCCredentials
    MaxCollisions = 4
SPECIFICATION RegSpec
INVARIANTS
    OfferedSaslIsUsed
PROPERTY HandshakeResolves
\* A registered or stopped handshake is the end of this protocol.
CHECK_DEADLOCK FALSE

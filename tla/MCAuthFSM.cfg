CONSTANTS
    Extras = {"labeled-response"}
    Ladder <- MCLadder
    MaxNickLen = 6
    MinCap = 4
SPECIFICATION FsmSpec
INVARIANTS
    FsmTypeOK
    PayloadOnlyAfterAck
PROPERTY NickCapNeverRises
\* A stopped handshake takes its Client down: nothing follows.
CHECK_DEADLOCK FALSE

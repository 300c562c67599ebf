SPECIFICATION Spec
CONSTANTS
    Nicks = {"alice", "zelda"}
    Chans = {"#c"}
    Nobody = "nobody"
    Sessions <- MCSessions
INVARIANTS
    SubTypeOK
    ListenerIsOurs
    OneHandler
    AckMeansJoined
    HeardIsApplied
PROPERTIES
    SocketComesBack
    JoinedChannelIsHeard
CHECK_DEADLOCK FALSE

SPECIFICATION WsSpec
CONSTANTS
    alice = alice
    bob = bob
    a1 = a1
    a2 = a2
    b1 = b1
    Users <- MCUsers
    Sockets <- MCSockets
    Owner <- MCOwner
INVARIANTS
    ToldIsCurrent
PROPERTIES
    ImplementsFeed
    DeadAreForgotten
    QuietIsNoticed

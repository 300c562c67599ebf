SPECIFICATION Spec
CONSTANTS
    Nicks = {"alice", "zelda"}
    Chans = {}
    Nobody = "nobody"
    Sessions <- MCRename
INVARIANTS
    WindowIsHeard
CHECK_DEADLOCK FALSE

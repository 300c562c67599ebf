SPECIFICATION ConnSpec
CONSTANTS
    r1 = r1
    r2 = r2
    t1 = t1
    Boot = Boot
    BaseMs = 2
    CapMs = 8
    MaxCount = 5
    Requests = {r1}
    Tasks = {}
    Kinds = {"connect", "disconnect", "bounce"}
    Reboots = FALSE
INVARIANTS
    ConnTypeOK
    DownIsStopped
    WantedUpHasSession
PROPERTIES
    DropIsRetried

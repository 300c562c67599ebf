SPECIFICATION ConnSpec
CONSTANTS
    r1 = r1
    r2 = r2
    t1 = t1
    Boot = Boot
    BaseMs = 2
    CapMs = 8
    MaxCount = 2
    Requests = {r1, r2}
    Tasks = {t1}
    Kinds = {"connect", "disconnect", "bounce"}
    Reboots = TRUE
SYMMETRY Workmen
INVARIANTS
    LadderClimbs
PROPERTIES
    CrashedSessionWaits

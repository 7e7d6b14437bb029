CONSTANTS
    p1 = p1
    p2 = p2
    Processes = {p1, p2}
    Versions = {1, 2, 3}
    Columns <- AllColumns
    Releases <- FourReleases
    Guarded = 3
    MaxStarts = 4
    MaxDeploys = 3
SPECIFICATION StartupSpec
CHECK_DEADLOCK FALSE
INVARIANTS
    StartupInvariant
    ServesWhatItDeclares

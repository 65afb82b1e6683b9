CONSTANTS
    h1 = h1
    h2 = h2
    p1 = p1
    None = None
    Zero = Zero
    Absent = Absent
    Broken = Broken
    MaxIds = 2
    Run <- Runs
    Calls <- Together
    Port <- Ports
    Tries <- CookieLists
SPECIFICATION FairSpec
INVARIANTS
    FilesAgree
    IdentityLasts
    RepliesInStep
    NoOrphans
PROPERTIES
    StopEnds
CHECK_DEADLOCK FALSE

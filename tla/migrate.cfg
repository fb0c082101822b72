SPECIFICATION FairSpec
CONSTANTS
    Schema <- Names
    Latest <- Latests
    Migration <- Migrations
    Release <- Releases
    MaxStart = 4
    MaxCrash = 2
    MaxFail = 1
INVARIANTS
    VersionTellsTables
    OpenIsCurrent
PROPERTIES
    StartOpens
CHECK_DEADLOCK FALSE

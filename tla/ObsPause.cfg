SPECIFICATION FairSpec
CONSTANTS
    RequiresPark = TRUE
    SyncRoof = FALSE
    RoofMayBeSlow = TRUE
    ResetReadsParked = TRUE
    JnowMount = TRUE
    MaxFaults = 1
    CloseOnUnsafe = TRUE
    ReopenWhenSafe = TRUE
    OnUnsafeAction = "pause"
    UnsafeN = 2
    ResumeN = 2
    MaxPause = FALSE
    ParkWhenDone = TRUE
    CloseWhenDone = TRUE
    MayCentre = TRUE
    MayNotCentre = TRUE
    MayRun = TRUE
    Routes = {}
PROPERTY UnsafeSettles
PROPERTY EndsStill

SPECIFICATION Spec
CONSTANTS
    RequiresPark = TRUE
    SyncRoof = TRUE
    RoofMayBeSlow = FALSE
    ResetReadsParked = FALSE
    JnowMount = FALSE
    MaxFaults = 2
    CloseOnUnsafe = TRUE
    ReopenWhenSafe = TRUE
    OnUnsafeAction = "pause"
    UnsafeN = 2
    ResumeN = 2
    MaxPause = TRUE
    ParkWhenDone = TRUE
    CloseWhenDone = TRUE
    MayCentre = TRUE
    MayNotCentre = TRUE
    MayRun = TRUE
    Routes = {"park","stop","tracking","trust"}
INVARIANT TypeOK
 
PROPERTY ResumeDebounced
PROPERTY OpenSky

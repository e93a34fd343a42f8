SPECIFICATION Spec
CONSTANTS
    RequiresPark = FALSE
    SyncRoof = TRUE
    RoofMayBeSlow = FALSE
    ResetReadsParked = TRUE
    JnowMount = FALSE
    MaxFaults = 1
    CloseOnUnsafe = FALSE
    ReopenWhenSafe = TRUE
    OnUnsafeAction = "park"
    UnsafeN = 1
    ResumeN = 1
    MaxPause = TRUE
    ParkWhenDone = TRUE
    CloseWhenDone = TRUE
    MayCentre = TRUE
    MayNotCentre = FALSE
    MayRun = TRUE
    Routes = {"center","park","unpark","stop","tracking","trust","dome"}
PROPERTY AimedKnowing
PROPERTY StopHolds

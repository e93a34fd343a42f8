SPECIFICATION Spec
CONSTANTS
    RequiresPark = TRUE
    SyncRoof = TRUE
    RoofMayBeSlow = FALSE
    ResetReadsParked = FALSE
    JnowMount = FALSE
    MaxFaults = 0
    CloseOnUnsafe = TRUE
    ReopenWhenSafe = TRUE
    OnUnsafeAction = "pause"
    UnsafeN = 2
    ResumeN = 2
    MaxPause = TRUE
    ParkWhenDone = TRUE
    CloseWhenDone = TRUE
    MayCentre = TRUE
    MayNotCentre = TRUE
    MayRun = FALSE
    Routes = {"goto","center","park","unpark","stop","tracking","trust","dome"}
INVARIANT NeverCrush

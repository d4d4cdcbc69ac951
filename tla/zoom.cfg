SPECIFICATION ZoomFairSpec
CONSTANTS
    ZOOM_STAGES <- MCStages
    IndexModulus <- MCModulus
    ConfigFails = TRUE
    AppWaits = TRUE
INVARIANTS IndexInRange  ZoomApplied
PROPERTIES SmoothZoomEnds

SPECIFICATION Spec
CONSTANTS
    MaxKills = 2
INVARIANTS RestartsClean HandlersInsideRound
PROPERTIES CrashRecovered KillEnds
CHECK_DEADLOCK FALSE

SPECIFICATION FairSpec
CONSTANTS
    Order <- ServiceOrder
    Critical = {ws, ex}
    Limited = {media}
    WS = ws
    EX = ex
    Media = media
    RestartLimit = 2
    RestartWindow = 1
    HealthyReset = 2
    MediaLimit = 1
    MediaDelay = 1
    MaxTime = 3
    MaxFaults = 1
INVARIANTS TypeOK NoRestartStorm
PROPERTY DesktopComesBack
CHECK_DEADLOCK FALSE

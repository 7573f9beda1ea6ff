SPECIFICATION StalledSpec
CONSTANTS
    k1 = k1
    k2 = k2
    k3 = k3
    k4 = k4
    Clicks <- FourClicks
    BufferSize = 2
CHECK_DEADLOCK FALSE
INVARIANTS
    TypeOK
    ClicksConserved
    NoSendOnClosed
    NothingToSaveAfterClose
    CleanExitSavesAll
PROPERTIES
    SignalEnds
    RedirectNotBlocked

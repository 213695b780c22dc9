SPECIFICATION Spec
CONSTANTS
    r1 = r1
    r2 = r2
    r3 = r3
    d1 = d1
    d2 = d2
    c1 = c1
    c2 = c2
    Reaper = Reaper
    Main = Main
    NoDevice = NoDevice
    NoSession = NoSession
    Requests <- TwoRequests
    Devices <- TwoDevices
    Conns <- OneConn
    MaxConcurrent = 1
    DestroyMayFail = FALSE
    TurnstileEnabled = TRUE
    TTLOutlastsCreate = TRUE
    DrainMayTimeOut = FALSE
INVARIANTS
    RunningWithinCeiling

SPECIFICATION DriverSpec
CONSTANTS
    NTx = 2
    NRx = 2
    MaxPackets = 2
    MaxFrames = 2
    MaxEvents = 1
    TxResults = {"ok", "err"}
    InitOutcomes = {TRUE}
    TintDelayed = FALSE
    RintDelayed = FALSE
    ReloadOnStart = FALSE
    Multicast = TRUE
    RxResets = TRUE
    Jabber = TRUE
    AllocFails = FALSE
INVARIANT
    TintSync

SPECIFICATION DriverFairSpec
CONSTANTS
    NTx = 2
    NRx = 2
    MaxPackets = 3
    MaxFrames = 2
    MaxEvents = 1
    TxResults = {"ok", "err"}
    InitOutcomes = {TRUE}
    TintDelayed = FALSE
    RintDelayed = FALSE
    ReloadOnStart = FALSE
    Multicast = FALSE
    RxResets = FALSE
    Jabber = TRUE
    AllocFails = FALSE
INVARIANTS
    FullRingWakes
    RxInStep
PROPERTIES
    ImplementsTx
    DriverDrains
    DriverIntrReturns

SPECIFICATION DriverSpec
CONSTANTS
    NTx = 2
    NRx = 2
    MaxPackets = 3
    MaxFrames = 2
    MaxEvents = 1
    TxResults = {"ok", "err", "uflo"}
    InitOutcomes = {TRUE, FALSE}
    TintDelayed = TRUE
    RintDelayed = FALSE
    ReloadOnStart = TRUE
    Multicast = TRUE
    RxResets = TRUE
    Jabber = TRUE
    AllocFails = FALSE
INVARIANTS
    StalledMeansFull
    RxFlushed
PROPERTY
    ImplementsTx
CHECK_DEADLOCK FALSE

SPECIFICATION TxSpec
CONSTANTS
    NTx = 2
    MaxPackets = 3
    MaxEvents = 2
    TxResults = {"ok", "err", "uflo"}
    InitOutcomes = {TRUE, FALSE}
    TintDelayed = TRUE
    ReloadOnStart = TRUE
    Multicast = TRUE
    RxResets = TRUE
CHECK_DEADLOCK FALSE
INVARIANTS
    StalledMeansFull

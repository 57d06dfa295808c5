SPECIFICATION TxFairSpec
CONSTANTS
    NTx = 2
    MaxPackets = 3
    MaxEvents = 0
    TxResults = {"ok", "err", "uflo"}
    InitOutcomes = {TRUE}
    TintDelayed = FALSE
    ReloadOnStart = FALSE
    Multicast = FALSE
    RxResets = FALSE
PROPERTY
    UnderflowResets

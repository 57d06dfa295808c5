SPECIFICATION TxSpec
CONSTANTS
    NTx = 3
    MaxPackets = 4
    MaxEvents = 2
    TxResults = {"ok", "err", "uflo"}
    InitOutcomes = {TRUE, FALSE}
    TintDelayed = FALSE
    ReloadOnStart = FALSE
    Multicast = TRUE
    RxResets = FALSE
INVARIANTS
    TxTypeOK
    RingAccounting
    TintSync
    StalledMeansFull
    TxInv
PROPERTY
    TxInOrder

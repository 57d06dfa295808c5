SPECIFICATION RxFairSpec
CONSTANTS
    NRx = 3
    MaxFrames = 4
    MaxEvents = 2
    InitOutcomes = {TRUE, FALSE}
    Multicast = TRUE
    ReloadOnStart = FALSE
    Jabber = TRUE
    AllocFails = FALSE
    RintDelayed = TRUE
    TxResets = TRUE
INVARIANTS
    RxTypeOK
    NoDescriptorLost
    InputFlushed
    RxInv
PROPERTIES
    RxInOrder
    IntrReturns

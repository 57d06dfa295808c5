SPECIFICATION RxSpec
CONSTANTS
    NRx = 2
    MaxFrames = 4
    MaxEvents = 2
    InitOutcomes = {TRUE, FALSE}
    Multicast = FALSE
    ReloadOnStart = FALSE
    Jabber = FALSE
    AllocFails = TRUE
    RintDelayed = FALSE
    TxResets = FALSE
PROPERTY
    DroppedStaysDropped

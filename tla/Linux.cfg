SPECIFICATION LinuxSpec
CONSTANTS
    TxRing = 4
    RxRing = 4
    MaxWork = 2
    NumBuffs = 2
INVARIANTS
    LinuxTypeOK
    UpHasBuffers
    TxInStep
    AwakeMeansRoom
    LinuxRxInStep
    NeverWedged
    QueueWaits
    Released

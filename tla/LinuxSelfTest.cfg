SPECIFICATION LinuxSpec
CONSTANTS
    TxRing = 4
    RxRing = 4
    MaxWork = 1
    NumBuffs = 2
PROPERTY
    BuffersFreed

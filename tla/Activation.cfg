SPECIFICATION LifeFairSpec
CONSTANTS
    InitOutcomes = {TRUE, FALSE}
    OpenFails = TRUE
    Groups <- MCGroups
    Bases <- MCBases
    RecvDescs = 32
    TransDescs = 32
INVARIANTS
    LifeTypeOK
    Level0Off
    EnabledMeansUp
    FullDuplexKept
    HeldWhileUsed
    FilterAfterInit
    
PROPERTIES
    ImplementsActivation
    InterruptsServed
    LinkReported

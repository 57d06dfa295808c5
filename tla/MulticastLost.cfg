SPECIFICATION LifeSpec
CONSTANTS
    InitOutcomes = {TRUE, FALSE}
    OpenFails = TRUE
    Groups <- MCGroups
    Bases <- MCBases
    RecvDescs = 32
    TransDescs = 32
INVARIANT
    ListedPass

SPECIFICATION Spec
CONSTANTS
    Configs <- SomeConfigs
    InitialDelay = 1
    MaxDelay = 3
    Threshold = 2
    Sources = {src1, src2}
    Sinks <- TwoSinks
    MaxSpawns = 3
INVARIANTS
    RunIsSound
PROPERTIES
    EachChildInItsTurn
    RestartsAreBounded
    WedgedIsReplaced

SPECIFICATION FairSpec
CONSTANTS
    Slot = {s1, s2}
    MaxLive = 2
    MajorEvery = 2
    Growth = 2
    Floors = {1}
    StressGC = FALSE
PROPERTY GarbageIsFreed

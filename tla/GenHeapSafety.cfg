SPECIFICATION Spec
CONSTANTS
    Slot = {s1, s2, s3}
    MaxLive = 3
    MajorEvery = 3
    Growth = 2
    Floors = {2}
    StressGC = FALSE
SYMMETRY Symmetry
INVARIANTS TypeOK SweepIsSafe OldToYoungRecorded LiveCountExact MinorSkipsOldGraph
PROPERTIES MajorFreesAllGarbage ImplementsMemory

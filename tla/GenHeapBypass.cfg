SPECIFICATION Spec
CONSTANTS
    Slot = {s1, s2}
    MaxLive = 2
    MajorEvery = 3
    Growth = 2
    Floors = {1}
    StressGC = TRUE
INVARIANT NoDangling

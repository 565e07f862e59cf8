\* Two pages with one image name each, two chains of at most two steps.
SPECIFICATION Spec
CONSTANTS
    MaxObject = 3
    NoObject = NoObject
    MaxPage = 2
    Illustrated = {2}
    Index = {1}
    Counts = {1}
    MaxBatch = 1
    MaxSteps = 2
    MaxRuns = 2
    MaxFact = 0
    NoPage = NoPage
    NoImage = NoImage
    NoCount = NoCount
INVARIANTS TypeOK LandedIsStored EveryObjectHeld ReadyWithinCount
PROPERTIES NeverOlder WrittenWorkKept EndsClean
\* A deleted file, or one out of its bounded runs, stops.
CHECK_DEADLOCK FALSE

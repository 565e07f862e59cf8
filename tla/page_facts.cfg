\* The numbers of a page's facts, across a trim and a later report.
SPECIFICATION Spec
CONSTANTS
    MaxObject = 1
    NoObject = NoObject
    MaxPage = 2
    Illustrated = {2}
    Index = {1}
    Counts = {1}
    MaxBatch = 1
    MaxSteps = 2
    MaxRuns = 2
    MaxFact = 3
    NoPage = NoPage
    NoImage = NoImage
    NoCount = NoCount
PROPERTY PageFactsGapFree
\* A deleted file, or one out of its bounded runs, stops.
CHECK_DEADLOCK FALSE

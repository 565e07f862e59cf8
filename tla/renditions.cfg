\* Two names, four objects between them, a call that tries three times.
SPECIFICATION Spec
CONSTANTS
    MaxObject = 4
    NoObject = NoObject
    Name = {base, preview}
    MaxJob = 2
    Attempts = 3
    NoRow = NoRow
INVARIANTS TypeOK ObjectsFollowRows NothingLeftOut
PROPERTY RetriesFollowSwaps
\* A deleted file, with its call answered, stops.
CHECK_DEADLOCK FALSE

\* Two pods that write one table.
SPECIFICATION FairSpec
CONSTANTS
    Pod = {p1, p2}
    Type = {ocr, render}
    MaxChanges = 2
    MaxFaults = 1
INVARIANTS TypeOK FollowedIsCurrent
PROPERTY CopyConverges
\* Once Jobs stops changing its catalogue, the pods wait.
CHECK_DEADLOCK FALSE

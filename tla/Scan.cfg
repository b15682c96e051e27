SPECIFICATION SpecScan
CONSTANTS
    k1 = k1
    k2 = k2
    k3 = k3
    Key = {k1, k2, k3}
    Filters <- All
    Counts = {1, 2}
    MaxChanges = 0
PROPERTIES
    ScansAreComplete
CHECK_DEADLOCK FALSE

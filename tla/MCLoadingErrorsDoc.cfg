SPECIFICATION LoadSpec
CONSTANTS
    l1 = l1
    l2 = l2
    none = none
    noSuite = noSuite
    Libraries <- MCLibraries
    NoLib <- none
    NoSuite <- noSuite
    MaxLoaders = 3
    MaxErrors = 3
    MaxEntries = 2
SYMMETRY MCSymmetry
INVARIANT EveryErrorIsReported
CHECK_DEADLOCK FALSE

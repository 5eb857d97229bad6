SPECIFICATION LoadSpec
CONSTANTS
    l1 = l1
    l2 = l2
    none = none
    noSuite = noSuite
    Libraries <- MCLibraries
    NoLib <- none
    NoSuite <- noSuite
    MaxLoaders = 3
    MaxErrors = 3
    MaxEntries = 2
SYMMETRY MCSymmetry
INVARIANTS
    LoadTypeOK
    LibraryOutlivesObject
    RunnerListsLiveObjects
    EveryPluginAccountedFor
    FatalErrorIsShown
\* The program stops once the runner is gone.
CHECK_DEADLOCK FALSE

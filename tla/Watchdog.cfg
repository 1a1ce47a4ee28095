SPECIFICATION FairSpec
CONSTANT N = 3
INVARIANT CallsDoNotCount
PROPERTY OverrunEnds
CHECK_DEADLOCK FALSE

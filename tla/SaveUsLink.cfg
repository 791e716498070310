SPECIFICATION FairSpec
CONSTANT MaxSeq = 1
INVARIANT TypeOK
PROPERTIES Safe Delivers JoinCompletes
CHECK_DEADLOCK FALSE

SPECIFICATION FairSpec
CONSTANT MaxSeq = 1
PROPERTY SynIsRetried
CHECK_DEADLOCK FALSE

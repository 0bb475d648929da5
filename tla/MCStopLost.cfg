SPECIFICATION FairSpec
PROPERTY StopCompletes
CHECK_DEADLOCK FALSE

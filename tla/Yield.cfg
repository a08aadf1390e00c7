SPECIFICATION FairSpec
PROPERTY Quits
CHECK_DEADLOCK FALSE

SPECIFICATION FairSpec
CONSTANT Scenarios <- Gap
PROPERTY CreationActivates
CHECK_DEADLOCK FALSE

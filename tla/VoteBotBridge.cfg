CONSTANT MaxSent = 3
SPECIFICATION FairSpec
INVARIANTS InOrder NobodyLeftHanging
PROPERTIES Delivered EndsWhenNoticed
CHECK_DEADLOCK FALSE

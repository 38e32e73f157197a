CONSTANT Names = {n1, n2, n3}
SPECIFICATION FairSpec
INVARIANTS NothingUnused
PROPERTIES RefsKept Terminates
CHECK_DEADLOCK FALSE

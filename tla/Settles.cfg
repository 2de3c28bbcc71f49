CONSTANTS p1 = p1  p2 = p2  Nil = Nil
SPECIFICATION FairSpec
PROPERTY EverythingSettles
CHECK_DEADLOCK FALSE

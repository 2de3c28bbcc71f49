CONSTANTS p1 = p1  p2 = p2  a = a  b = b  d = d  None = None
SPECIFICATION Spec
SYMMETRY Symmetry
PROPERTY MovesLand
PROPERTY DeletesWhatWasRead
PROPERTY DerivedFromOneHead
PROPERTY CatalogIsChained
INVARIANT ProcessesStayInReach
PROPERTY NoWorkIsLost
CHECK_DEADLOCK FALSE

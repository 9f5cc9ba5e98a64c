SPECIFICATION Spec
CONSTANT MaxDepth = 2
INVARIANT PairsEndTheirLine
CHECK_DEADLOCK FALSE

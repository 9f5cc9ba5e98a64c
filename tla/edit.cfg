CONSTANT Sessions <- MCSessions
SPECIFICATION LogicSpec
INVARIANTS AlwaysFolds ReadsBack WalkResolves
PROPERTIES Implements OrderKept
CHECK_DEADLOCK FALSE

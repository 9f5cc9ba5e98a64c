CONSTANT Sessions <- StateComments
SPECIFICATION LogicSpec
INVARIANTS ReadsBack WalkVisitsAll
\* A session ends.
CHECK_DEADLOCK FALSE

CONSTANT Sessions <- EditComments
SPECIFICATION LogicSpec
PROPERTIES CreatesOnItsPath EntryDeletedWhole FailedDefaultWritesNothing SetReplaces
\* A session ends.
CHECK_DEADLOCK FALSE

CONSTANTS
  t1 = t1
  t2 = t2
  t3 = t3
  s1 = s1
  s2 = s2
  broken = broken
  Threads <- MCThreads
  Shapes <- MCShapes
  Foldable <- MCFoldable
  NoAnswer = NoAnswer
  NoLayer = NoLayer
  Nobody = Nobody
  Generations = 2
SPECIFICATION Spec
INVARIANTS AnswersAreFresh FoldsOnce
PROPERTIES ImplementsFresh ReadsReturn

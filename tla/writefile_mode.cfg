CONSTANTS
  w1 = w1
  w2 = w2
  n1 = n1
  n2 = n2
  good = good
  bad = bad
  Writers <- MCAlone
  Renderings <- MCRenderings
  Sound <- MCSound
  Names <- MCNames
  NoName = NoName
  Perms <- MCPerms
  Specials <- MCSpecials
  NewPerm <- MCNewPerm
  Umask <- AloneUmask
  NoFile = NoFile
  Nothing = Nothing
  Partial = Partial
  MaxAttempts = 1
SPECIFICATION Spec
PROPERTY WholeModeKept
\* A writer need not write again.
CHECK_DEADLOCK FALSE

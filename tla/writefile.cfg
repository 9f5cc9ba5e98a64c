CONSTANTS
  w1 = w1
  w2 = w2
  n1 = n1
  n2 = n2
  good = good
  bad = bad
  Writers <- MCWriters
  Renderings <- MCRenderings
  Sound <- MCSound
  Names <- MCNames
  NoName = NoName
  Perms <- MCPerms
  Specials <- MCSpecials
  NewPerm <- MCNewPerm
  Umask <- MCUmask
  NoFile = NoFile
  Nothing = Nothing
  Partial = Partial
  MaxAttempts = 1
SPECIFICATION Spec
INVARIANTS DestinationWhole NoLitter
PROPERTIES ModeKept ImplementsAtomic CallsReturn
CHECK_DEADLOCK FALSE

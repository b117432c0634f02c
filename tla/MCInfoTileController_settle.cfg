SPECIFICATION FairSpec
CONSTANTS
  t1 = t1
  s1 = s1
  s2 = s2
  a1 = a1
  Tiles = {t1}
  Specs = {s1, s2}
  Answers = {a1}
  Responsive = {t1}
  MaxBehind = 1
  MaxErrors = 1
INVARIANTS TypeOK
PROPERTIES ContentMatchesSpec SettledTileRendered

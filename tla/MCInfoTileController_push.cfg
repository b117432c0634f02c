SPECIFICATION Spec
CONSTANTS
  t1 = t1
  s1 = s1
  a1 = a1
  a2 = a2
  Tiles = {t1}
  Specs = {s1}
  Answers = {a1, a2}
  Responsive = {t1}
  MaxBehind = 0
  MaxErrors = 0
INVARIANT BrowserFollowsContent

SPECIFICATION Spec
CONSTANTS
  i1 = i1
  i2 = i2
  t1 = t1
  t2 = t2
  s1 = s1
  s2 = s2
  p1 = p1
  i3 = i3
  ann = ann
  bob = bob
  Starts <- MCStarts
  Ids = {i1, i2, i3}
  Logins = {ann, bob}
  TitleIds = {t1, t2}
  LCCNs = {x, y}
  MARC = {x}
  Dirs = {dir}
  Slots = {s1, s2}
  Pulls = {p1}
  Handed = {"admin", "user manager"}
  None = None
SYMMETRY MCSymmetry
INVARIANTS
  ValidatedKnown
PROPERTIES
  SomeAdmin
  NoTwins
  ChangedByRight
  ValidatedKept

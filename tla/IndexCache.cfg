SPECIFICATION Spec
CONSTANTS
  s1 = s1
  s2 = s2
  f1 = f1
  t1 = t1
  t2 = t2
  bad = bad
  m1 = m1
  Servers = {s1, s2}
  Files = {f1}
  Texts = {t1, t2, bad}
  Broken = {bad}
  Stamps = {m1}
  MaxWrites = 1
  MaxEdits = 1
  NoFile = NoFile  NoDocument = NoDocument  NoEntry = NoEntry  NoCache = NoCache  Partial = Partial
SYMMETRY Symmetric
CHECK_DEADLOCK FALSE
INVARIANTS SymbolsOfText FollowsDisk
PROPERTY CacheReplacedWhole

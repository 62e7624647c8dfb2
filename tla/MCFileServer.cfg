CONSTANTS
  c1 = c1
  c2 = c2
  n1 = n1
  n2 = n2
  bad = bad
  hidden = hidden
  p1 = p1
  p2 = p2
  x = x
  y = y
  Conns = {c1, c2}
  Names = {n1, n2, bad, hidden}
  BadNames = {bad}
  Unreadable = {hidden}
  Passwords = {p1, p2}
  Nul = Nul
  Bytes = {x, y, Nul}
  Contents <- MCContents
  Scripts <- MCScripts
SPECIFICATION Spec
CONSTRAINT NoMapRace
CHECK_DEADLOCK FALSE
INVARIANTS
  RepliesMatch
  DownloadsMatch
PROPERTIES
  EveryRequestAnswered

CONSTANTS
  a = a  b = b  c = c  d = d
  p = p  q = q
  Files = {a, b, c, d}
  OldFiles = {a, d}
  Tampered = {a}
  Patches = {p, q}
  w1 = w1  w2 = w2
  Workers = {w1, w2}
  Initial = 1
  Retries = 2
  LastAttempt = 1
  Releases <- SomeReleases
  Mishaps = {"cancel", "crash", "outage", "rot", "elsewhere"}
SPECIFICATION Spec
CHECK_DEADLOCK FALSE
INVARIANTS PackageIsWhole NothingUnverified TagIsHonest
PROPERTIES ProgressIsKept

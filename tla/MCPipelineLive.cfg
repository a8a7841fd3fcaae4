CONSTANTS
  w1 = w1  w2 = w2
  f1 = f1  f2 = f2  f3 = f3  f4 = f4
  c1 = c1  c2 = c2  c3 = c3
  Workers = {w1, w2}
  Files = {f1, f2, f3}
  Chunks = {c1, c3}
  Slots <- TwiceSlots
  FileOf <- SlotFile
  NameOf <- SlotName
  OldSlots = {}
  Completed = {f2}
  Valid = {}
  Cached = {}
  Concurrency = 1
  MaxTarget = 1
  MayFail = {"register", "download", "assembly"}
SPECIFICATION FairSpec
PROPERTIES KeepsContract AssemblyEnds

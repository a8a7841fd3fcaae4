CONSTANTS
  w1 = w1  w2 = w2
  f1 = f1  f2 = f2  f3 = f3  f4 = f4
  c1 = c1  c2 = c2  c3 = c3
  Workers = {w1, w2}
  Files = {f1, f2, f3, f4}
  Chunks = {c1, c2, c3}
  Slots <- MixedSlots
  FileOf <- SlotFile
  NameOf <- SlotName
  OldSlots <- MixedOld
  Completed = {}
  Valid = {f4}
  Cached = {}
  Concurrency = 1
  MaxTarget = 2
  MayFail = {"register", "download", "assembly"}
SPECIFICATION Spec
SYMMETRY WorkerSymmetry
INVARIANTS ChunkKept CountersExact OkMeansInstalled CancelledIsQuiet OkLeavesNoChunk

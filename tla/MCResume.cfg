CONSTANTS
  fe = fe  fm = fm  fp = fp  fo = fo  fz = fz
  c0 = c0  c1 = c1  c2 = c2  c3 = c3
  Files = {fe, fm, fp, fo, fz}
  Chunks = {c0, c1, c2, c3}
  Slots <- SharedSlots
  FileOf <- SlotFile
  NameOf <- SlotName
  OldSlots <- SharedOld
  OldSize <- Mixed
  Interval = 2
  MaxSaves = 1
  Mishaps = {"crash", "stop", "tear"}
SPECIFICATION Spec
SYMMETRY EagerSymmetry
CHECK_DEADLOCK FALSE
INVARIANTS OkMeansInstalled ScanIsRight MemoryIsRight
PROPERTIES RecordedStays

CONSTANTS
  f = f
  g = g
  Paths = {f, g}
  MaxEntries = 1
  MaxTime = 1
  MaxSessions = 2
  ChunkNames = {"a", "b"}
  Manifests <- Either
  MaxJobs = 2
SPECIFICATION Spec
CHECK_DEADLOCK FALSE
INVARIANTS  EntriesVouch ChunksForJobs
PROPERTIES RepairedIsRight

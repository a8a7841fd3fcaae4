CONSTANTS
  Names = {c1, c2}
  MaxFiles = 3
  MaxSlots = 2
  VerifyModes = {"Full", "Deferred"}
SPECIFICATION RegSpec
INVARIANTS ItemsMatchManifest CountdownsBalance EagerMatchesManifest

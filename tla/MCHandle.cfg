CONSTANTS
  Workers = {w1, w2}
  Controllers = {u1}
SPECIFICATION HandleFairSpec
INVARIANTS NoLostWakeup
PROPERTIES GateContract CancelReachesAll

CONSTANTS
  Users = {a, b}
  Readers = {r1, r2}
  None = None
  MaxVersion = 3
SYMMETRY Symmetry
SPECIFICATION Spec
INVARIANTS RestartKeepsSession TokensAreTheSessions CacheStaleOnlyByRace
CHECK_DEADLOCK FALSE

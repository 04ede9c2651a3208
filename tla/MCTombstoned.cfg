CONSTANTS
  Crashes = {c1, c2, c3}
  Intercepts = {i1, i2}
  Pids = {p1}
  Types = {"java", "tombstone", "proto", "any"}
  MaxDumps <- Dumps
  MaxArtifacts <- Artifacts
  Times = {1, 2}
  MaxRestarts = 1
SPECIFICATION FairSpec
INVARIANTS
  PlacesCounted
  NoIdlePlace
  Owned
  InterceptsFound
PROPERTIES
  OldestReplaced
  CrashEnds
CHECK_DEADLOCK FALSE

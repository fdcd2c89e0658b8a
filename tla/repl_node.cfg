SPECIFICATION FairSpec
CONSTANTS
  AsyncModes = {TRUE, FALSE}
  Kinds = {"item", "ddl", "other"}
  ChunkSize = 2
  Routines = 2
  MaxUpdates = 2
  MaxFaults = 1
INVARIANTS
  TypeOK
  CountedOnce
  OkIsApplied
  NothingPassedOver
  SyncMarkIsTrue
PROPERTIES
  EmitterIsAsked
  Converges
  EveryUpdateCounted
CHECK_DEADLOCK FALSE

SPECIFICATION Spec
CONSTANTS
  ItemKeys = {i1}
  MetaKeys = {m1}
  ChunkLimit = 2
  Proxies = {FALSE}
  MaxWrites = 2
  MaxFaults = 0
  MaxCopies = 1
  MaxAdvices = 0
INVARIANT ReadSeesLastWrite
CHECK_DEADLOCK FALSE

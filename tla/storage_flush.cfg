SPECIFICATION FairSpec
CONSTANTS
  ItemKeys = {i1}
  MetaKeys = {m1}
  ChunkLimit = 2
  Proxies = {TRUE, FALSE}
  MaxWrites = 3
  MaxFaults = 2
  MaxCopies = 1
  MaxAdvices = 1
INVARIANTS TotalIsExact ItemsSurvive UnflushedIsRead
PROPERTY ItemsAreFlushed
CHECK_DEADLOCK FALSE

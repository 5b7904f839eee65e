\* Looks for a state where hash_config.k2d names a shard that is torn or
\* missing while no splitter is running.
CONSTANTS
  Capacity = 5
  HashCapacities = {2, 3, 7}
  Header = 32
  CellBytes = 4
  MaxShards = 3
  MaxRuns = 2
  NoConfig = NoConfig
  LegacyLens <- MCLegacyLens
SPECIFICATION Spec
INVARIANTS ConfigImpliesShardsComplete
CHECK_DEADLOCK FALSE

\* The splitter is a batch tool: after its last permitted run it stops.
CONSTANTS
  Capacity = 5
  HashCapacities = {0, 2, 3, 7}
  Header = 32
  CellBytes = 4
  MaxShards = 3
  MaxRuns = 2
  NoConfig = NoConfig
  LegacyLens <- MCLegacyLens
SPECIFICATION Spec
INVARIANTS TypeOK ShardsMatchConfig SplitDoneCoversIndex
PROPERTIES SplitEnds
CHECK_DEADLOCK FALSE

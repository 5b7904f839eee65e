\* resolve is a batch tool: it stops when done, on an error or on a panic.
CONSTANTS
  Samples = {1, 2, 3}
  Parts = {1, 2}
  Hits <- MCHits
  IdSets = {{1, 2, 3}, {1, 3}}
  NoOutput = NoOutput
  ReadErrors = FALSE
  MaxRuns = 2
SPECIFICATION Spec
INVARIANTS NoEvidenceLost
CHECK_DEADLOCK FALSE

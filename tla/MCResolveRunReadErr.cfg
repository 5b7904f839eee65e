\* One run in which reading a hit file may fail part-way: looks for a hit
\* file removed after an output written without all of its rows.
CONSTANTS
  Samples = {1, 2, 3}
  Parts = {1, 2}
  Hits <- MCHits
  IdSets = {{1, 2, 3}, {1, 3}}
  NoOutput = NoOutput
  ReadErrors = TRUE
  MaxRuns = 1
SPECIFICATION Spec
INVARIANTS NoEvidenceLost
CHECK_DEADLOCK FALSE

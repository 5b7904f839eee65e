\* Every mask of an 8-bit word with every factor except the word width;
\* each call returns, so behaviours stop at "done".
CONSTANTS
  W = 8
  Factors = {0, 1, 2, 3, 4, 5, 6, 7, 9}
SPECIFICATION Spec
INVARIANTS TypeOK ExpandCorrect
CHECK_DEADLOCK FALSE

\* Chains of 0 to 4 blocks, slices with bounds up to one past either end
\* (or omitted) and steps -2..2 (or omitted), compared with Python's
\* slicing rule.
CONSTANTS
  Width = 8
  MinChain = 0
  MaxChain = 4
  None = None
  KeyKinds = {"slice"}
SPECIFICATION Spec
CHECK_DEADLOCK FALSE
INVARIANT MatchesPython

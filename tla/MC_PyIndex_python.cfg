\* Chains of 0 to 4 blocks, every index of an 8-bit stand-in for int64_t,
\* compared with Python's indexing rule.  After a SIGFPE the interpreter
\* is gone and no call follows: the model stops there on purpose.
CONSTANTS
  Width = 8
  MinChain = 0
  MaxChain = 4
  None = None
  KeyKinds = {"int"}
SPECIFICATION Spec
CHECK_DEADLOCK FALSE
INVARIANT MatchesPython

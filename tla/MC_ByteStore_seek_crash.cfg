\* Release build, callers that seek back into bytes still in the buffer
\* (spec.md 4.1 allows any offset in [0, size()]): a write there crashes.
CONSTANTS
  Zero = z
  Bytes = {z, a}
  WriteLens = {1, 2}
  InitSize = 1
  MaxSize = 4
  MaxBufferSize = 2
  NDEBUG = TRUE
  SeekWithBuffer = TRUE
SPECIFICATION Spec
INVARIANT NoFault

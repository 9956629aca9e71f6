\* Release build, callers that seek back into bytes still in the buffer:
\* the bytes of a write are appended at the end instead of at the cursor.
CONSTANTS
  Zero = z
  Bytes = {z, a}
  WriteLens = {1, 2}
  InitSize = 1
  MaxSize = 4
  MaxBufferSize = 2
  NDEBUG = TRUE
  SeekWithBuffer = TRUE
SPECIFICATION Spec
PROPERTY Refines

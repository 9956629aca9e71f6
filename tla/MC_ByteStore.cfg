\* Writer under the documented seek protocol, debug build: every write
\* lands where the logical byte array says and no assert fires.
CONSTANTS
  Zero = z
  Bytes = {z, a}
  WriteLens = {1, 2, 3}
  InitSize = 1
  MaxSize = 5
  MaxBufferSize = 1
  NDEBUG = FALSE
  SeekWithBuffer = FALSE
SPECIFICATION Spec
INVARIANT TypeOK
INVARIANT NoFault
PROPERTY Refines

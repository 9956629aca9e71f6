\* The writer may die between any two calls and be reopened on the same
\* files; the index is checked against the data file after reopening.
CONSTANTS
  N = 2
  Zero = z
  DataBytes = {z, a}
  PayloadLens = {1, 2}
  Invalid = 99
  NoPayload = NoPayload
  Reserved = Reserved
  MaxEntries = 3
  MaxData = 4
  IndexBufferMax = 2
  DataBufferMax = 2
  NDEBUG = FALSE
SPECIFICATION CrashSpec
INVARIANT IndexInData

\* The writer truncates (spec.md 4.3 contract kept) while a reader that
\* reloads only after full flushes holds its mappings.
CONSTANTS
  N = 2
  Zero = z
  DataBytes = {z, a}
  PayloadLens = {1, 2}
  Invalid = 99
  NoPayload = NoPayload
  Reserved = Reserved
  MaxEntries = 3
  MaxData = 4
  IndexBufferMax = 2
  DataBufferMax = 2
  NDEBUG = FALSE
  ReaderWaitsForFlush = TRUE
SPECIFICATION TruncSpec
INVARIANT ReaderMapsInFile

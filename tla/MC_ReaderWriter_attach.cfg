\* A reader that reloads only after the writer flushed both files, while
\* the writer attaches auxiliary payloads to entries already on disk.
CONSTANTS
  N = 2
  Zero = z
  DataBytes = {z, a}
  PayloadLens = {1, 2}
  Invalid = 99
  NoPayload = NoPayload
  Reserved = Reserved
  MaxEntries = 3
  MaxData = 4
  IndexBufferMax = 2
  DataBufferMax = 2
  NDEBUG = FALSE
  ReaderWaitsForFlush = TRUE
SPECIFICATION RWSpec
INVARIANT ReaderIndexInData

\* A reader that reloads only after the writer flushed both files sees
\* every primary payload its index mapping points at; the index file,
\* read a record at a time, implements the record array of spec.md 4.2.
CONSTANTS
  N = 2
  Zero = z
  DataBytes = {z, a}
  PayloadLens = {1, 2}
  Invalid = 99
  NoPayload = NoPayload
  Reserved = Reserved
  MaxEntries = 3
  MaxData = 4
  IndexBufferMax = 2
  DataBufferMax = 2
  NDEBUG = FALSE
  ReaderWaitsForFlush = TRUE
SPECIFICATION RWSpec
INVARIANT ReaderStreamZero
PROPERTY IndexRefinesArray

\* The writer may die inside a flush, leaving a file extended by part of
\* its buffer, and be reopened on the same files; the index cursor is
\* checked to be on a record boundary after reopening.
CONSTANTS
  N = 2
  Zero = z
  DataBytes = {z, a}
  PayloadLens = {1, 2}
  Invalid = 99
  NoPayload = NoPayload
  Reserved = Reserved
  MaxEntries = 3
  MaxData = 4
  IndexBufferMax = 2
  DataBufferMax = 2
  NDEBUG = FALSE
SPECIFICATION CrashSpec
INVARIANT IndexCursorOnRecord

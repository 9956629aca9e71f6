\* Single writer keeping the truncation contract of spec.md 4.3.
CONSTANTS
  N = 2
  Zero = z
  DataBytes = {z, a}
  PayloadLens = {1, 2}
  Invalid = 99
  NoPayload = NoPayload
  Reserved = Reserved
  MaxEntries = 3
  MaxData = 4
  IndexBufferMax = 2
  DataBufferMax = 2
  NDEBUG = FALSE
SPECIFICATION Spec
INVARIANT TypeOK
INVARIANT RoundTrip

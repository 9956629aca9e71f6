\* Streams of one alignment, release build (the size assert does not stop
\* a wrongly padded builder), every residue modulo 4 before finalize().
CONSTANTS
  N = 2
  Align <- EqualAlign
  HeadSize <- EqualHeads
  AddSizes = {1, 2}
  MaxData = 32
  MaxRaw = 12
  NDEBUG = TRUE
SPECIFICATION Spec
INVARIANT FinalizeIsLeastMultiple

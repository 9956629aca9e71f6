---------------------------- MODULE ReaderWriter ----------------------------
(***************************************************************************)
(* A reader process beside the writer of MultiStore.  The reader is an     *)
(* IndexedFileMapper<read> on the same two files: each of its mappers is a *)
(* SimpleFileMapperBase<read> whose mapping is MAP_SHARED, so it sees the  *)
(* bytes on disk live, but only up to the length it mapped at its last     *)
(* reload().  Its reload() remaps the index file and then the data file,   *)
(* two steps the writer can act between.                                   *)
(*                                                                         *)
(*   rIndexLen, rDataLen   lengths of the reader's two mappings, in units  *)
(*   rpc                   "idle", or "data" between its two remaps        *)
(*                                                                         *)
(* A writer call is one step: the reader's steps interleave between calls. *)
(***************************************************************************)
EXTENDS MultiStore

CONSTANT ReaderWaitsForFlush \* readers reload only while the writer has nothing buffered

ASSUME ReaderWaitsForFlush \in BOOLEAN

VARIABLES rIndexLen, rDataLen, rpc

readerVars == <<rIndexLen, rDataLen, rpc>>
allVars == <<vars, readerVars>>

\* The reader protocol: reload only after the writer flushed both files.
WriterFlushed == indexBuffer = <<>> /\ dataBuffer = <<>>

\* The IndexedFileMapper<read> constructor maps both files as they are.
ReaderInit ==
  /\ rIndexLen = Len(indexFile)
  /\ rDataLen = Len(dataFile)
  /\ rpc = "idle"

\* SimpleFileMapperBase::reload(): the file exists, so it is remapped when
\* it is not open or its size on disk differs from the mapped size.
MapLength(mapped, onDisk) == IF mapped # onDisk THEN onDisk ELSE mapped

\* Mutant: IndexedFileMapper::reload() that forgets dataFile.reload().
ReaderReloadIndexOnly ==
  /\ rpc = "idle"
  /\ ReaderWaitsForFlush => WriterFlushed
  /\ rIndexLen' = MapLength(rIndexLen, Len(indexFile))
  /\ UNCHANGED <<vars, rDataLen, rpc>>

\* IndexedFileMapper::reload(), first step: indexFile.reload().
ReaderReloadIndex ==
  /\ rpc = "idle"
  /\ ReaderWaitsForFlush => WriterFlushed
  /\ rIndexLen' = MapLength(rIndexLen, Len(indexFile))
  /\ rpc' = "data"
  /\ UNCHANGED <<vars, rDataLen>>

\* Second step: dataFile.reload(), which follows at once in the same call.
ReaderReloadData ==
  /\ rpc = "data"
  /\ rDataLen' = MapLength(rDataLen, Len(dataFile))
  /\ rpc' = "idle"
  /\ UNCHANGED <<vars, rIndexLen>>

\* getOffsets(k) in the reader: record k read through its index mapping,
\* which holds the bytes on disk.
ReaderOffsets(k) == [i \in Streams |-> indexFile[k * N + i + 1]]

\* The reader's dataFile.getDataAtOffset(offset) (SimpleFileMapperBase):
\* nullptr for Invalid, else &file[offset] after asserting offset < size(),
\* the length of its mapping.  TRUE when the call returns a pointer into
\* the mapping or nullptr.
ReaderCanRead(offset) == offset = Invalid \/ offset < rDataLen

\* The reader's size(): whole records in its index mapping.
ReaderSize == rIndexLen \div N

\* The writer's calls while a reader exists; truncate is WriterTruncates,
\* below, checked in a run of its own.
WriterNext ==
  \/ \E v \in Payloads : WriteNew(v)
  \/ \E k \in 0..(MaxEntries - 1), i \in Streams \ {0}, v \in Payloads : WriteUpdate(k, i, v)
  \/ ClearBuffer
  \/ SeekEnd

RWInit == Init /\ ReaderInit

RWNext ==
  \/ WriterNext /\ UNCHANGED readerVars
  \/ ReaderReloadIndex
  \/ ReaderReloadData

RWSpec == RWInit /\ [][RWNext]_allVars

\* The writer also truncates (a chain reorganisation) while the reader
\* holds its mappings.
WriterTruncates ==
  /\ \E k \in 0..(Size - 1) : TruncateAllowed(k) /\ Truncate(k)
  /\ UNCHANGED readerVars

TruncSpec == RWInit /\ [][RWNext \/ WriterTruncates]_allVars

-----------------------------------------------------------------------------
\* When the reader is between calls, every record in its index mapping has
\* its primary payload inside its data mapping (the stream-0 invariant of
\* spec.md 8, for a reader instance): getDataAtIndex<0> never trips the
\* assert in getOffset nor reads past the mapping.
ReaderStreamZero ==
  rpc = "idle" =>
    \A k \in 0..(ReaderSize - 1) : ReaderOffsets(k)[0] < rDataLen

\* The assert in the reader's getOffset (file_mapper.hpp line 448) holds for
\* every stream: each offset it reads is Invalid or inside its data mapping.
ReaderIndexInData ==
  rpc = "idle" =>
    \A k \in 0..(ReaderSize - 1), i \in Streams :
      ReaderCanRead(ReaderOffsets(k)[i])

\* Every byte a reader has mapped is still backed by its file (spec.md 5:
\* a reader sees the on-disk state of its last reload); a mapped page past
\* the end of the file reads as zeros or raises SIGBUS.
ReaderMapsInFile == rIndexLen <= Len(indexFile) /\ rDataLen <= Len(dataFile)
=============================================================================

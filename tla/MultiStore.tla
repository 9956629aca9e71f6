---------------------------- MODULE MultiStore -----------------------------
(***************************************************************************)
(* IndexedFileMapper<write, T0, ..., T(N-1)> (file_mapper.hpp): a data     *)
(* file of variable-length payloads and an index file of N-offset records, *)
(* each a SimpleFileMapper<write> (module ByteStore).  The index file is   *)
(* a FixedSizeFileMapper<FileIndex<N>> (module ArrayStore) whose unit is   *)
(* one OffsetType field, N to a record.  A data                            *)
(* "byte" is one alignment unit of a payload (payload sizes are multiples  *)
(* of the stream's alignment, asserted in writeNewImp/writeUpdateImp).     *)
(*                                                                         *)
(*   stored   ghost: the payload each (entry, stream) was last given, or   *)
(*            NoPayload; what getDataAtIndex must return.  An entry        *)
(*            reserved by grow() and not yet written is ReservedEntry.     *)
(***************************************************************************)
EXTENDS Naturals, Sequences

CONSTANTS
  N,              \* sizeof...(T): the number of streams
  DataBytes,      \* the values of a data unit
  Zero,           \* the unit a growing truncate fills with
  PayloadLens,    \* lengths, in units, of the payloads written
  Invalid,        \* InvalidFileIndex
  NoPayload,      \* ghost marker: nothing was written to this stream
  Reserved,       \* ghost marker: the entry is a slot reserved by grow()
  MaxEntries,     \* bound on the number of index records
  MaxData,        \* bound on the size of the data file
  IndexBufferMax, \* maxBufferSize, counted in offsets (index fields)
  DataBufferMax,  \* maxBufferSize, counted in data units
  NDEBUG

Streams == 0..(N - 1)
Offsets == 0..MaxData

ASSUME N \in Nat \ {0}
ASSUME Invalid \in Nat /\ Invalid > MaxData

VARIABLES
  dataFile, dataBuffer, dataPos, dataStatus,
  indexFile, indexBuffer, indexPos, indexStatus,
  stored

dataVars  == <<dataFile, dataBuffer, dataPos, dataStatus>>
indexVars == <<indexFile, indexBuffer, indexPos, indexStatus>>
vars == <<dataVars, indexVars, stored>>


Data == INSTANCE ByteStore WITH
  file <- dataFile, buffer <- dataBuffer, writePos <- dataPos, status <- dataStatus,
  Bytes <- DataBytes, WriteLens <- PayloadLens, InitSize <- 0, MaxSize <- MaxData,
  MaxBufferSize <- DataBufferMax, SeekWithBuffer <- FALSE

Index == INSTANCE ArrayStore WITH
  file <- indexFile, buffer <- indexBuffer, writePos <- indexPos, status <- indexStatus,
  Units <- Offsets \cup {Invalid}, Zero <- 0, RecordSize <- N,
  MaxRecords <- MaxEntries, MaxBufferSize <- IndexBufferMax

Payloads == Data!Strings(PayloadLens)

\* size(): the number of index records.
Size == Index!Size

\* getOffsets(index): the FileIndex<N> of entry k (*indexFile[k]), a
\* function from stream numbers to offsets.
GetOffsets(k) == [i \in Streams |-> Index!At(k)[i + 1]]

\* getData(index) / operator[](index): the tuple of the pointers
\* dataFile.getDataAtOffset(offsets[i]) returns, one per stream; an Invalid
\* offset gives nullptr, here Invalid, and any other a pointer into the
\* mapping or the buffer, here the offset.
GetData(k) == [i \in Streams |-> GetOffsets(k)[i]]

\* The entry the index cursor is at (it moves in whole records).
IndexCursor == indexPos \div N

\* The FileIndex<N> writeNewImp fills in: the data cursor, then Invalid.
NewRecord(pos) == [j \in 1..N |-> IF j = 1 THEN pos ELSE Invalid]

\* The payload of length n stored at data offset o.
PayloadAt(o, n) == [j \in 1..n |-> Data!DataAtOffset(o + j - 1)]

ReservedEntry == [i \in Streams |-> Reserved]

\* The data units that hold a payload some entry still refers to.
LiveUnits ==
  UNION {UNION {LET o == GetOffsets(k - 1)[i] IN o..(o + Len(stored[k][i]) - 1) :
                  i \in {i \in Streams : stored[k][i] # NoPayload}} :
           k \in {k \in 1..Len(stored) : stored[k] # ReservedEntry}}

\* The reserved-slot protocol of spec.md 4.3 (grow, then seek and write
\* into the reserved slots), as callers keep it: a payload of n units goes
\* where no live payload is, and a new entry is written at the end of the
\* index or over a reserved slot.
WriteAllowed(n) == \A u \in dataPos..(dataPos + n - 1) : u \notin LiveUnits
NewEntryAllowed == IndexCursor < Size => stored[IndexCursor + 1] = ReservedEntry

\* The ghost after a new entry is written at the index cursor.
StoreAt(pos, e) == IF pos < Len(stored) THEN [stored EXCEPT ![pos + 1] = e] ELSE Append(stored, e)

Init ==
  /\ Data!Init
  /\ Index!Init
  /\ stored = <<>>

\* Mutant: the primary offset taken after the payload is written.
WriteNewLate(v) ==
  /\ NewEntryAllowed /\ WriteAllowed(Len(v))
  /\ Index!Write(NewRecord(dataPos + Len(v)))
  /\ Data!Write(v)
  /\ stored' = StoreAt(IndexCursor, [i \in Streams |-> IF i = 0 THEN v ELSE NoPayload])

\* write(t) / write(ArbitraryLengthData<T0>&) -> writeNewImp: the record
\* (data cursor, Invalid, ...) is written to the index, then the payload to
\* the data file.
WriteNew(v) ==
  /\ NewEntryAllowed /\ WriteAllowed(Len(v))
  /\ Index!Write(NewRecord(dataPos))
  /\ Data!Write(v)
  /\ stored' = StoreAt(IndexCursor, [i \in Streams |-> IF i = 0 THEN v ELSE NoPayload])

\* write<indexNum>(addressNum, t) -> writeUpdateImp: the record of entry k
\* is updated in place, through the pointer into the mapping or buffer,
\* with the data cursor for stream i, then the payload is written.
WriteUpdate(k, i, v) ==
  /\ k < Size /\ stored[k + 1] # ReservedEntry /\ WriteAllowed(Len(v))
  /\ Index!SetField(k, i, dataPos)
  /\ Data!Write(v)
  /\ stored' = [stored EXCEPT ![k + 1][i] = v]

\* Callers keep the contract of spec.md 4.3: they truncate at k only when
\* no earlier entry has an auxiliary payload at or past entry k's primary.
TruncateAllowed(k) ==
  \A j \in 0..(k - 1), i \in Streams :
    GetOffsets(j)[i] = Invalid \/ GetOffsets(j)[i] < GetOffsets(k)[0]

\* Mutant: the data file truncated at the last stream's offset instead of
\* the primary's.
TruncateWrongStream(k) ==
  /\ k < Size
  /\ Index!Truncate(k)
  /\ Data!Truncate(GetOffsets(k)[N - 1])
  /\ stored' = SubSeq(stored, 1, k)

\* truncate(index): when index < size(), read its offsets, truncate the
\* index file to index records and the data file to the primary offset.
Truncate(k) ==
  /\ k < Size
  /\ Index!Truncate(k)
  /\ Data!Truncate(GetOffsets(k)[0])
  /\ stored' = SubSeq(stored, 1, k)

\* clearBuffer(): the index file, then the data file.
ClearBuffer ==
  /\ Index!ClearBuffer
  /\ Data!ClearBuffer
  /\ UNCHANGED stored

\* The writer closes the store and opens it again: ~SimpleFileMapper()
\* runs clearBuffer() for indexFile and then dataFile (members are
\* destroyed in reverse order of declaration), and each constructor puts
\* writePos at the size of its file.
Reopen ==
  /\ indexStatus = "ok" /\ dataStatus = "ok"
  /\ indexFile' = indexFile \o indexBuffer /\ indexBuffer' = <<>>
  /\ dataFile' = dataFile \o dataBuffer /\ dataBuffer' = <<>>
  /\ indexPos' = Len(indexFile') /\ dataPos' = Len(dataFile')
  /\ UNCHANGED <<indexStatus, dataStatus, stored>>

\* reload(): indexFile.reload() then dataFile.reload(); in write mode each
\* only clears its buffer.
Reload ==
  /\ Index!Reload
  /\ Data!Reload
  /\ UNCHANGED stored

\* seekEnd()
SeekEnd ==
  /\ Index!SeekEnd
  /\ Data!SeekEnd
  /\ UNCHANGED stored

\* grow(indexSize, dataSize): truncate each file to its size plus the
\* growth, zero-filling it; the reserved records hold offset 0 for every
\* stream.
Grow(di, dd) ==
  /\ Index!Truncate(Size + di)
  /\ Data!Truncate(Data!Size + dd)
  /\ stored' = stored \o [j \in 1..di |-> ReservedEntry]

\* seek(index, dataOffset): seek each file.
SeekTo(k, o) ==
  /\ Index!Seek(k)
  /\ Data!Seek(o)
  /\ UNCHANGED stored

Next ==
  \/ \E v \in Payloads : WriteNew(v)
  \/ \E k \in 0..(MaxEntries - 1), i \in Streams \ {0}, v \in Payloads : WriteUpdate(k, i, v)
  \/ \E k \in 0..(Size - 1) : TruncateAllowed(k) /\ Truncate(k)
  \/ ClearBuffer
  \/ Reload
  \/ SeekEnd
  \/ Reopen
  \/ \E di \in 1..(MaxEntries - Size), dd \in 0..(MaxData - Data!Size) : Grow(di, dd)
  \/ \E k \in Index!SeekTargets, o \in Data!SeekTargets : SeekTo(k, o)

Spec == Init /\ [][Next]_vars

\* What a crash inside clearBuffer() can leave of a file: flush() grows the
\* file by the buffer's length and then copies the buffer into the new
\* tail (spec.md 4.1), and a crash may leave the file partially extended
\* (spec.md 5).  The file keeps its bytes, then the first m bytes of the
\* buffer, then zero-fill up to a grown length g.
Flushed(f, b, m, g, z) == f \o SubSeq(b, 1, m) \o [j \in 1..(g - m) |-> z]

\* The writer process dies (a crash, a kill, or a fault in write()) and a
\* new IndexedFileMapper is constructed on the same files.  The mapped
\* bytes survive and the buffers do not; if the process died inside a
\* flush (clearBuffer(), reload(), or the destructors, which flush
\* indexFile and then dataFile), that file is partially
\* extended and the other file's last flush completed or never began.
\* Each SimpleFileMapper constructor sets writePos to the byte size of its
\* file and checks nothing; FixedSizeFileMapper::size() rounds down to
\* whole records.  The ghost keeps the payloads of the surviving entries.
Restart ==
  \E gi \in 0..Len(indexBuffer), gd \in 0..Len(dataBuffer) :
  \E mi \in 0..gi, md \in 0..gd :
    /\ mi = Len(indexBuffer) \/ gi = 0 \/ md = Len(dataBuffer) \/ gd = 0
    /\ indexFile' = Flushed(indexFile, indexBuffer, mi, gi, 0)
    /\ dataFile' = Flushed(dataFile, dataBuffer, md, gd, Zero)
    /\ dataBuffer' = <<>> /\ dataPos' = Len(dataFile') /\ dataStatus' = "ok"
    /\ indexBuffer' = <<>> /\ indexPos' = Len(indexFile') /\ indexStatus' = "ok"
    /\ stored' = SubSeq(stored, 1, Len(indexFile') \div N)

CrashSpec == Init /\ [][Next \/ Restart]_vars

-----------------------------------------------------------------------------
TypeOK ==
  /\ Data!TypeOK
  /\ Index!TypeOK
  /\ stored \in Seq([Streams -> Payloads \cup {NoPayload}] \cup {ReservedEntry})

\* Every offset of a written index record is Invalid or inside the data
\* file (spec.md 3 and the stream-0 invariant of spec.md 8; spec.md 5 and 7
\* say a reopened store recovers or reports CorruptFile rather than expose
\* such a record).  A slot grow() reserved and nobody wrote is exempt: its
\* zero bytes are no record.
IndexInData ==
  \A k \in 0..(Size - 1), i \in Streams :
    k < Len(stored) /\ stored[k + 1] # ReservedEntry =>
      GetOffsets(k)[i] = Invalid \/ GetOffsets(k)[i] < Data!Size

\* The index file, seen a record at a time, implements the record array of
\* spec.md 4.2 under the calls a writer makes beside a reader (appends,
\* field stores of writeUpdateImp, flushes, seekEnd): each write(t) appends
\* one whole record at the record cursor.  (At this level any change of a
\* single record is a legal store through operator[].)
IndexRefinesArray == Index!RefinesArray

\* After any reopen the index cursor is on a record boundary, so the next
\* entry is appended as a whole record after the last complete one: the
\* trailing bytes of a torn flush are ignored (spec.md 5 and 7), not made
\* the first half of the entry write() stores at writePos.
IndexCursorOnRecord == indexPos % N = 0

\* Round trip (spec.md 8): for every entry and stream, getDataAtIndex
\* returns absent exactly when nothing was written there, and otherwise
\* the bytes last written, whether the index record and the payload are
\* in the mapping or in a buffer, across flushes at either file's
\* threshold, in-place updates of records, truncations, and slots
\* reserved by grow() and filled later after seeks.
RoundTrip ==
  /\ Len(stored) = Size
  /\ \A k \in {k \in 1..Len(stored) : stored[k] # ReservedEntry}, i \in Streams :
       LET o == GetData(k - 1)[i]
           p == stored[k][i]
       IN IF p = NoPayload
            THEN o = Invalid
            ELSE /\ o # Invalid
                 /\ o + Len(p) <= Data!Size
                 /\ PayloadAt(o, Len(p)) = p
=============================================================================

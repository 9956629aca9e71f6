----------------------------- MODULE ArrayStore -----------------------------
(***************************************************************************)
(* FixedSizeFileMapper<T, write> (file_mapper.hpp): a SimpleFileMapper     *)
(* (module ByteStore) read and written in records of sizeof(T) bytes.      *)
(* A unit of the byte store here is one field of T (for FileIndex<N>, one  *)
(* OffsetType), so a record is RecordSize units and getPos(index) is       *)
(* index * RecordSize; the unit is the smallest thing the code stores      *)
(* through a record pointer.                                               *)
(***************************************************************************)
EXTENDS Naturals, Sequences

CONSTANTS
  Units,          \* the values of one field
  Zero,           \* the field a growing truncate fills with
  RecordSize,     \* fields per record
  MaxRecords,     \* bound on the number of records
  MaxBufferSize,  \* maxBufferSize, counted in fields
  NDEBUG

VARIABLES file, buffer, writePos, status

vars == <<file, buffer, writePos, status>>

Store == INSTANCE ByteStore WITH
  Bytes <- Units, WriteLens <- {RecordSize}, InitSize <- 0,
  MaxSize <- MaxRecords * RecordSize, SeekWithBuffer <- FALSE

Records == [1..RecordSize -> Units]

\* Mutant: getPos(index) that forgets sizeof(T).
getPosUnscaled(index) == index

\* getPos(index)
getPos(index) == index * RecordSize

\* size(): whole records in the store (integer division).
Size == Store!Size \div RecordSize

\* operator[](index): the record at getPos(index), in the mapping or buffer.
At(index) == [j \in 1..RecordSize |-> Store!DataAtOffset(getPos(index) + j - 1)]

\* A store through the pointer operator[](index) returns, to field j (from 0).
SetField(index, j, u) == Store!WriteThrough(getPos(index) + j, u)

\* The constructor: the SimpleFileMapper of the file.
Init == Store!Init

\* write(const T &t): sizeof(T) bytes at the cursor.
Write(t) == Store!Write(t)

\* seek(index)
Seek(index) == Store!Seek(getPos(index))

\* The record numbers a caller seeks to (see ByteStore!SeekTargets).
SeekTargets == {i \in 0..MaxRecords : getPos(i) \in Store!SeekTargets}

\* seekEnd(), reload(), clearBuffer(): delegated.
SeekEnd == Store!SeekEnd
Reload == Store!Reload
ClearBuffer == Store!ClearBuffer

\* truncate(index): truncate the store to getPos(index) bytes.
Truncate(index) == Store!Truncate(getPos(index))

Next ==
  \/ \E t \in Records : Write(t)
  \/ \E i \in SeekTargets : Seek(i)
  \/ SeekEnd
  \/ ClearBuffer
  \/ Reload
  \/ \E i \in 0..MaxRecords : Truncate(i)
  \/ \E i \in 0..(Size - 1), j \in 0..(RecordSize - 1), u \in Units : SetField(i, j, u)

Spec == Init /\ [][Next]_vars

\* What FixedSizeFileMapper promises (spec.md 4.2): an array of records
\* with a record cursor, i.e. the byte-store promise one level up.
RecordView == [k \in 1..Size |-> At(k - 1)]

Array == INSTANCE ByteStoreSpec WITH
  Bytes <- Records, Zero <- [j \in 1..RecordSize |-> Zero], WriteLens <- {1},
  InitSize <- 0, MaxSize <- MaxRecords,
  content <- RecordView, cursor <- writePos \div RecordSize

-----------------------------------------------------------------------------
TypeOK == Store!TypeOK

\* The records seen through operator[] behave as an array of records: each
\* write(t) replaces or appends the record at the cursor, seek/truncate
\* work in whole records, a store through operator[] changes one record,
\* and flushes change nothing a caller sees.  It fails if getPos() and
\* size() ever disagree, or the cursor leaves a record boundary.
RefinesArray == Array!Spec
=============================================================================

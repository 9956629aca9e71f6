----------------------------- MODULE ByteStore -----------------------------
(***************************************************************************)
(* SimpleFileMapper<write> (file_mapper.hpp): a memory-mapped file plus an *)
(* in-memory append buffer that virtually extends it, and a write cursor.  *)
(*                                                                         *)
(*   file      the bytes of the mapping (MAP_SHARED: the bytes on disk)    *)
(*   buffer    the std::vector<char> buffer not yet written to the file    *)
(*   writePos  the cursor that write() starts at                           *)
(*   status    "ok", "aborted" (a failed assert in a debug build) or       *)
(*             "fault" (memcpy given a negative length: the process dies)  *)
(*                                                                         *)
(* clearBuffer() and truncate() are declared in the header and defined     *)
(* outside src/; they are modelled from spec.md 4.1.                       *)
(***************************************************************************)
EXTENDS Naturals, Integers, Sequences

CONSTANTS
  Bytes, Zero, WriteLens, InitSize, MaxSize,
  MaxBufferSize,   \* maxBufferSize (50000000 in the code)
  NDEBUG,          \* TRUE for a release build: assert() is compiled out
  SeekWithBuffer   \* FALSE: callers seek below the end only with an empty buffer

ASSUME Zero \in Bytes
ASSUME NDEBUG \in BOOLEAN /\ SeekWithBuffer \in BOOLEAN

VARIABLES file, buffer, writePos, status

vars == <<file, buffer, writePos, status>>

\* The logical byte array a caller sees: the file followed by the buffer.
Logical == INSTANCE ByteStoreSpec WITH content <- file \o buffer, cursor <- writePos
Strings(lens) == Logical!Strings(lens)
Patch(s, at, v) == Logical!Patch(s, at, v)
Resize(s, n) == Logical!Resize(s, n)
Lesser(a, b) == IF a < b THEN a ELSE b

\* size(): mapped length plus buffered bytes.
Size == Len(file) + Len(buffer)

\* Mutant: writeSpace() one short inside the mapping.
WriteSpaceShort(pos) ==
  LET fileEnd == Len(file) IN
  IF pos < fileEnd THEN fileEnd - pos - 1
  ELSE IF pos < fileEnd + Len(buffer) THEN (pos - fileEnd) - Len(buffer)
  ELSE 0

\* writeSpace(), as written: inside the buffer it subtracts the buffer
\* length from the distance into it, which is never positive.
WriteSpace(pos) ==
  LET fileEnd == Len(file) IN
  IF pos < fileEnd THEN fileEnd - pos
  ELSE IF pos < fileEnd + Len(buffer) THEN (pos - fileEnd) - Len(buffer)
  ELSE 0

\* The SimpleFileMapper constructor: map the existing file, cursor at size().
Init ==
  /\ file \in Strings(0..InitSize)
  /\ buffer = <<>>
  /\ writePos = Len(file)
  /\ status = "ok"

\* clearBuffer(): append the buffer to the file, remap, empty the buffer.
ClearBuffer ==
  /\ status = "ok"
  /\ file' = file \o buffer
  /\ buffer' = <<>>
  /\ UNCHANGED <<writePos, status>>

\* reload() in write mode only calls clearBuffer().
Reload == ClearBuffer

\* Mutant: the buffer cleared before the new bytes are inserted into it.
BufferAppendDrop(f, b, rest) ==
  IF Len(b \o rest) > MaxBufferSize THEN <<f \o b, <<>>>> ELSE <<f, b \o rest>>

\* The tail of write(): insert the remaining bytes at the end of the
\* buffer and, when it has grown past maxBufferSize, clearBuffer().
\* Yields the new <<file, buffer>>.
BufferAppend(f, b, rest) ==
  IF Len(b \o rest) > MaxBufferSize THEN <<f \o b \o rest, <<>>>> ELSE <<f, b \o rest>>

\* write(valuePos, amountToWrite): overwrite the mapping from the cursor,
\* then (as written) overwrite the buffer when writePos < buffer.size(),
\* then assert the cursor is at the end and append the rest to the buffer.
Write(v) ==
  LET fileEnd == Len(file)
      n1      == IF writePos < fileEnd THEN Lesser(Len(v), WriteSpace(writePos)) ELSE 0
      file1   == Patch(file, writePos, SubSeq(v, 1, n1))
      pos1    == writePos + n1
      rest1   == SubSeq(v, n1 + 1, Len(v))
      enter2  == rest1 # <<>> /\ pos1 >= fileEnd /\ pos1 < Len(buffer)
      n2      == IF enter2 THEN Lesser(Len(rest1), WriteSpace(pos1)) ELSE 0
      buffer2 == Patch(buffer, pos1 - fileEnd, SubSeq(rest1, 1, n2))
      pos2    == pos1 + n2
      rest2   == SubSeq(rest1, n2 + 1, Len(rest1))
      tail    == BufferAppend(file1, buffer2, rest2)
  IN
  /\ status = "ok"
  /\ writePos + Len(v) <= MaxSize
  /\ Size + Len(v) <= MaxSize
  /\ IF n2 < 0 THEN
        \* memcpy with a length converted from a negative number
        /\ status' = "fault"
        /\ UNCHANGED <<file, buffer, writePos>>
     ELSE IF rest2 # <<>> /\ pos2 # fileEnd + Len(buffer) /\ ~NDEBUG THEN
        /\ status' = "aborted"
        /\ UNCHANGED <<file, buffer, writePos>>
     ELSE
        /\ writePos' = pos2 + Len(rest2)
        /\ file' = tail[1]
        /\ buffer' = tail[2]
        /\ UNCHANGED status

\* Offsets a caller seeks to: anywhere up to size(), or, when callers keep
\* the documented protocol, below the end only while nothing is buffered.
SeekTargets ==
  IF SeekWithBuffer \/ buffer = <<>> THEN 0..Size ELSE {Size}

\* Mutant: seek() converting an index to an offset one too low.
SeekOffByOne(o) ==
  /\ status = "ok"
  /\ writePos' = o - 1
  /\ UNCHANGED <<file, buffer, status>>

\* seek(offset)
Seek(o) ==
  /\ status = "ok"
  /\ writePos' = o
  /\ UNCHANGED <<file, buffer, status>>

\* seekEnd()
SeekEnd ==
  /\ status = "ok"
  /\ writePos' = Size
  /\ UNCHANGED <<file, buffer, status>>

\* truncate(offset): flush, resize the file (zero-filling), remap and
\* clamp the cursor to the new size.
Truncate(o) ==
  /\ status = "ok"
  /\ file' = Resize(file \o buffer, o)
  /\ buffer' = <<>>
  /\ writePos' = Lesser(writePos, o)
  /\ UNCHANGED status

\* getDataAtOffset(offset): the byte at a logical offset, file or buffer.
DataAtOffset(o) ==
  IF o < Len(file) THEN file[o + 1] ELSE buffer[o - Len(file) + 1]

\* A store through the pointer getDataAtOffset(o) returns: the byte at o
\* becomes b, in the mapping or in the buffer.
WriteThrough(o, b) ==
  /\ status = "ok"
  /\ IF o < Len(file)
       THEN file' = [file EXCEPT ![o + 1] = b] /\ UNCHANGED buffer
       ELSE buffer' = [buffer EXCEPT ![o - Len(file) + 1] = b] /\ UNCHANGED file
  /\ UNCHANGED <<writePos, status>>

Next ==
  \/ \E v \in Strings(WriteLens) : Write(v)
  \/ \E o \in SeekTargets : Seek(o)
  \/ SeekEnd
  \/ ClearBuffer
  \/ Reload
  \/ \E o \in 0..MaxSize : Truncate(o)

Spec == Init /\ [][Next]_vars

-----------------------------------------------------------------------------
TypeOK ==
  /\ file \in Seq(Bytes) /\ buffer \in Seq(Bytes)
  /\ writePos \in 0..MaxSize
  /\ Size \in 0..MaxSize
  /\ status \in {"ok", "aborted", "fault"}

\* No write kills the process: no memcpy is handed a negative length and no
\* assert in write() fails.  Both happen only if a write starts inside the
\* unflushed buffer, which writeSpace() and the buffer branch get wrong.
NoFault == status = "ok"

\* The store implements the logical byte array of spec.md 4.1: the bytes
\* seen through getDataAtOffset are the file followed by the buffer, and
\* every write lands at the cursor whether it goes to the mapping, the
\* buffer, or both, and whether or not it triggers a flush.
Refines == Logical!Spec
=============================================================================

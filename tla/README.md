# TLA+ models of BlockSci's memory-mapped record store

This directory models the storage core of BlockSci,
`src/include/blocksci/core/file_mapper.hpp`, with TLC-checkable TLA+.
`spec.md` describes the same core as a byte store, an array store and a
multi-stream store.

## 1. Inventory

### Components and their state

| Component (spec name / code name) | State | Operations that change state |
|---|---|---|
| ByteStore / `SimpleFileMapper<write>` (l. 76-122, 167-302) | mio mapping of `P.dat` (`file`), `std::vector<char> buffer`, `writePos` | constructor (maps file, cursor at `size()`), `write`, `seek`, `seekEnd`, `clearBuffer`*, `truncate`*, `reload` (= `clearBuffer`), stores through `getDataAtOffset` |
| Read-only mapper / `SimpleFileMapperBase<read>` (l. 76-122) | the mapping only | constructor, `reload` (remap when the on-disk size changed, unmap when the file vanished) |
| ArrayStore / `FixedSizeFileMapper<T>` (l. 304-389) | one `SimpleFileMapper` | `write`, `seek(i)`, `seekEnd`, `truncate(i)`, `reload`, `clearBuffer`; `operator[]` returns pointers that may be written through |
| MultiStreamStore / `IndexedFileMapper<T0..Tn-1>` (l. 412-578) | data `SimpleFileMapper` (`P_data.dat`) + index `FixedSizeFileMapper<FileIndex<N>>` (`P_index.dat`) | `write(T0)` / `write(ArbitraryLengthData)` -> `writeNewImp`, `write<i>(k, ...)` -> `writeUpdateImp`, `truncate(k)`, `grow`, `seek(k, o)`, `seekEnd`, `reload`, `clearBuffer` |
| VariableLengthBuilder / `ArbitraryLengthData<M>` (l. 124-160) | `rawData` vector | `add`, `finalize` (zero-pad to `alignof(M)`) |
| `FileInfo` (l. 62-74) | none (file-system calls) | `resize`, `create` (defined outside src/) |
| `RawBlock` (raw_block.hpp) | a plain record | none; `operator==` ignores `realSize` and `baseSize` |
| Python `Blockchain` binding (blockchain_py.cpp) | none | `__getitem__(int64_t)` normalises negative indices with `(size + i) % size`; `__getitem__(slice)` passes `slice.compute()`'s results to `view::slice`/`view::stride` |

`*` `clearBuffer()` and `truncate()` are declared in the header and defined in
a .cpp file that is not part of `src/`; they are modelled from spec.md 4.1
(flush: append the buffer to the file and remap; truncate: flush, resize,
remap, clamp the cursor).

### How the components interact

`IndexedFileMapper` owns two mappers and keeps them in step by call order
only: `writeNewImp` reads the data cursor, writes the index record, then
writes the payload; `writeUpdateImp` rewrites one field of an existing
index record through a pointer (into the index mapping or the index buffer)
and then writes the payload; `truncate(k)` reads entry `k`'s primary offset,
truncates the index and then the data file; `clearBuffer`/`reload` flush
the index before the data.  Each mapper also flushes on its own, inside
`write()`, when its buffer passes `maxBufferSize`.  Readers are other
processes (or other instances) that map the same files read-only and call
`reload()`.  There are no threads inside one instance; the concurrency is
between a writer process and reader processes sharing files, and between a
process and its own crash.

### What is hard

* The three-region `write()` (mapping, buffer overwrite, buffer append) with
  a cursor that callers move with `seek`; the buffer-region arithmetic in
  `writeSpace()` and the test at line 230 are wrong (spec.md 9 suspects it).
* Two files that flush independently: after a crash, or as seen by a reader
  that reloads at the wrong moment, the index can point past the data.
* In-place updates of index records that may live in the mapping or in the
  buffer.
* Truncation that cuts the data file at one entry's primary offset.
* A crash inside a flush leaves a file extended by part of its buffer; the
  reopened mapper's cursor is the byte size, not a record boundary.
* Alignment of payloads of several types sharing one data file.

### Properties that make each component correct

* ByteStore: refines the logical byte array of spec.md 4.1 (`ByteStoreSpec`);
  no write reaches a failing assert or a negative memcpy; the cursor stays
  in `[0, size()]`.
* ArrayStore: the records read through `operator[]` behave as an array of
  records with a record cursor (`ByteStoreSpec` over records); after a
  reopen the cursor is on a record boundary.
* MultiStreamStore: round trip - every (entry, stream) reads back the last
  payload written to it, or is absent iff nothing was, also through
  `grow` reservations filled later; every index offset is inside the data
  file (also after reopening, and as seen by a reader); a reader's
  mappings stay inside the files.
* VariableLengthBuilder: the finalised length is the least multiple of the
  alignment not below the raw length.
* Python binding: `__getitem__` follows Python's indexing rule for ints
  and for slices.

## 2. Plan

1. `ByteStoreSpec`, `ByteStore` - the write-mode mapper and the promise it
   refines. **Done.**
2. `ArrayStore`, `MultiStore` - `FixedSizeFileMapper` over a `ByteStore`,
   and `IndexedFileMapper` composing a data `ByteStore` with an index
   `ArrayStore`; round trip under appends, attachments, truncations,
   flushes, `grow` and `seek(k, o)` into reserved slots; crash and reopen.
   **Done.**
3. `ReaderWriter` - a reader process beside the `MultiStore` writer, under
   the protocol BlockSci uses (readers reload after the writer flushed both
   files), and the writer's `truncate` under a live reader.
   **Done.**
4. `Alignment` - `ArbitraryLengthData::finalize` against a reference
   definition, and the data cursor with streams of different alignments.
   **Done.**
5. `PyIndex` - `Blockchain.__getitem__`, the int and the slice overloads,
   against Python's indexing rule.  **Done.**
6. A record-level refinement of `ArrayStore` (`RefinesArray`: the index
   file implements `ByteStoreSpec` over whole records), close and reopen, and a crash inside a flush (torn flush,
   from spec.md 4.1 and 5).  **Done.**
7. Left: `RefinesArray` under seeks, truncations and `grow` (the
   reader/writer run, where it is checked, has no seeks; adding them, or
   checking it in `multistore_writer`, takes TLC past five minutes), and a
   torn flush inside the threshold flush of `write()`.

## 3. Modules

### ByteStoreSpec (abstract)
Variables `content` (the logical bytes) and `cursor`.  `Write(v)` patches
`v` into `content` at the cursor, growing it; `Seek(o)` for `o` in
`[0, size]`; `Truncate(o)` cuts or zero-extends and clamps the cursor;
`Overwrite(o, b)` replaces one byte in place (a store through a pointer
the store handed out).

### ByteStore (`SimpleFileMapper<write>`)
Variables `file` (mapping; `MAP_SHARED`, so also the bytes on disk),
`buffer`, `writePos`, `status` (`"aborted"` for a failed assert in a debug
build, `"fault"` for a memcpy with a negative length).  `Write(v)`
transcribes `write()` phase by phase, including `writeSpace()` as written;
`Seek`, `SeekEnd`, `ClearBuffer`, `Reload`, `Truncate`, and `WriteThrough`
(a store through the pointer `getDataAtOffset` returns).  Bytes are model
values; `NDEBUG` selects the build.  `SeekWithBuffer = FALSE` restricts
callers to seeking below the end only when the buffer is empty (right after
a truncate or flush), which is how BlockSci's writers use `seek`.
`Refines` checks `ByteStoreSpec` under the mapping
`content <- file \o buffer, cursor <- writePos`.

### ArrayStore (`FixedSizeFileMapper<T>`)
An instance `Store` of `ByteStore` in which a unit is one field of `T`, so
a record is `RecordSize` units and `getPos(index) = index * RecordSize`.
`Size` is the store's size divided by `RecordSize`; `At(index)` reads a
record through `getDataAtOffset` (mapping or buffer); `SetField(index, j,
u)` is a store through the pointer `operator[]` returns.  `Write`, `Seek`,
`SeekEnd`, `Reload`, `ClearBuffer`, `Truncate` delegate with the index to
offset conversion, as the code does.  `findAll(test)` changes no state
and is left out: it reads a record as `*this(index)`, which would not
compile if the member template were instantiated.
`Array` instantiates `ByteStoreSpec` one level up, with records as bytes:
`content <- RecordView` (records `0..size()-1` through `operator[]`),
`cursor <- writePos \div RecordSize`; `RefinesArray` is its `Spec`.  The
module is checked as the index file of `MultiStore`; its own `Next` is not
run on its own.

### MultiStore (`IndexedFileMapper`)
A `ByteStore` instance `Data` and an `ArrayStore` instance `Index` whose
records are `FileIndex<N>` (N offsets; a field is an offset or `Invalid`).
A data unit is one alignment unit of a payload.  The ghost `stored` records
the payload each (entry, stream) was last given, or `ReservedEntry` for a
slot `grow()` reserved and nothing has written yet.  `WriteNew`
(`writeNewImp`: index record then payload, at the index cursor, which is
the end or a reserved slot), `WriteUpdate` (`writeUpdateImp`: one field of
the record stored in place, then the payload), `Truncate`, `Grow`,
`SeekTo` (`seek(index, dataOffset)`), `ClearBuffer`, `Reload`, `SeekEnd`,
`Reopen` (the destructors flush the index and then the data file, the
constructors put each cursor at its file's size).  `GetData(k)` is
`getData`/`operator[]`: per stream, `nullptr` (`Invalid`) or the offset the
pointer is taken at; `RoundTrip` reads entries through it.  `Restart`
(only in `CrashSpec`) is a crash and reopen: both buffers are lost, and a
flush in progress may have left one file extended by a prefix of its
buffer followed by zero fill (`Flushed`; spec.md 4.1 says `flush()` grows
the file and then copies, spec.md 5 that a crash may leave it partially
extended); the other file's last flush completed or never began.  Caller
obligations of spec.md 4.3 are guards: `TruncateAllowed`, and for the
reserved-slot protocol `WriteAllowed` (a payload goes where no live payload
is) and `NewEntryAllowed` (a new entry goes at the end or over a reserved
slot).  In plain appending use these guards are always true.

### ReaderWriter (a reader process beside the writer)
Extends `MultiStore` with a reader `IndexedFileMapper<read>`: `rIndexLen`
and `rDataLen` are the lengths of its two mappings, `rpc` is `"data"`
between the two remaps of its `reload()` (`ReaderReloadIndex`, then
`ReaderReloadData`; each is `SimpleFileMapperBase::reload`, remapping when
the on-disk size differs).  The mappings are `MAP_SHARED`, so the reader
reads the writer's file bytes live (`ReaderOffsets`) but only up to the
lengths it mapped.  The writer's calls are `WriteNew`, `WriteUpdate`,
`ClearBuffer` and `SeekEnd`; `WriterTruncates` is added in `TruncSpec`.
`ReaderCanRead(o)` is the assert of the reader's `getDataAtOffset`.
`ReaderWaitsForFlush` is the reader protocol: start a reload only when both
writer buffers are empty.

### Alignment (`ArbitraryLengthData` and the data cursor in bytes)
Here the data cursor `pos` counts bytes, since alignment is about bytes.
`NewBuilder(i)` (constructor: `rawData` holds the head, `sizeof(Ti)`
bytes), `Add(sz)`, `DropBuilder` (the builder dies unwritten),
`WriteFixed(i)` (`write(const Ti&)`) and `WriteVariable` (`finalize()`,
then write `size()` bytes).  Both go through `Put`, the size assert of
`writeNewImp`/`writeUpdateImp` (compiled out when `NDEBUG`) followed by
advancing the cursor.  Only lengths are kept: the bytes of
a payload do not affect alignment.  `Finalize` transcribes `finalize()`'s
`charsToAdd` arithmetic; `PaddedLength` is the reference definition (the
least multiple not below `n`, by `CHOOSE`).

### PyIndex (`Blockchain.__getitem__`)
`GetItem(size, isSigned, i)` transcribes the lambda: normalise a negative
`i` with `(size + i) % size`, cast to `uint64_t`, compare with `size()`.
`Blockchain::size()` is declared outside `src/`, so its signedness is a
variable chosen in `Init` and both are checked: signed arithmetic with C++
truncating `%`, or unsigned arithmetic modulo 2^64.  `Width` = 8 stands for
64: wrap-around behaves the same at any width wider than the chain.
`PythonGetItem` is the reference (Python's sequence rule).  `Call(i)` is
one call from Python; after a SIGFPE no call follows.  `CallSlice(a, b, c)`
is `chain[a:b:c]` (each field an int or `None`): `Compute` is
`slice.compute()` (pybind11 hands its `size_t` outputs to CPython's
`PySlice_GetIndicesEx` as `Py_ssize_t`; `AdjustBound` is its clamping), and
`SliceGetItem` passes the results, through `size_t` and back to
`ptrdiff_t` (`ToUnsigned`, `ToSigned`), to `view::slice(start, stop)` and
`view::stride(step)`.  A call outside their preconditions (`0 <= start <=
stop <= size()`, `step > 0`) is `RangeViolation`: a debug build aborts in
`RANGES_EXPECT` and a release build iterates outside the chain, and the
model does not follow it further.  Python's result for a slice is the
`slicelength` positions from `start` by `step`.

## 4. Runs

| Run | Checks | Result |
|---|---|---|
| `bytestore_protocol` (MC_ByteStore.cfg) | `TypeOK`, `NoFault`, `Refines` | pass |
| `bytestore_seek_crash` | `NoFault` with callers seeking into the buffer, release build | violated: memcpy with length -1 (finding 1) |
| `bytestore_seek_misplace` | `Refines`, same callers | violated: write appended at the end (finding 2) |
| `multistore_writer` (MC_MultiStore.cfg) | `TypeOK`, `RoundTrip` | pass (about 180 000 states) |
| `multistore_crash` | `IndexInData` under `CrashSpec` | violated: index past data after reopen (finding 3) |
| `multistore_torn` | `IndexCursorOnRecord` under `CrashSpec` | violated: cursor mid-record after a torn flush (finding 6) |
| `readerwriter_protocol` (MC_ReaderWriter.cfg) | `ReaderStreamZero`, `IndexRefinesArray` under `RWSpec` | pass |
| `readerwriter_attach` | `ReaderIndexInData`, reader reloads only after full flushes | violated (finding 4) |
| `readerwriter_truncate` | `ReaderMapsInFile` under `TruncSpec` | violated (finding 5) |
| `alignment_equal` (MC_Alignment.cfg) | `FinalizeIsLeastMultiple`, both streams 4-aligned, release build | pass |
| `pyindex_int` (MC_PyIndex_python.cfg) | `MatchesPython`, every 8-bit index, both signednesses | violated (finding 7) |
| `pyindex_slice` (MC_PyIndex_slice.cfg) | `MatchesPython`, slices | violated (finding 8) |

Bounds.  ByteStore: bytes `{z, a}`, writes of 1-3 bytes, logical size <= 5,
buffer threshold 1 (a three-byte write from the last mapped byte crosses
the end of the mapping, fills the buffer past the threshold and flushes
it), initial file of 0-1 bytes.  The two violation runs use writes of 1-2
bytes and threshold 2, which keep a byte in the buffer to seek into.  MultiStore: 2 streams,
payloads of 1-2 units over `{z, a}`, <= 3 entries, <= 4 data units, index
threshold 2 offsets (one record: the buffer flushes at its second record)
and data threshold 2 units, so each file flushes inside `write()`
independently of the other and records and payloads are found on both
sides of the mapping/buffer boundary.  `grow` reserves 1-3 entries and
0-4 data units, enough to fill reserved slots both in order and after a
seek.  Every path through `write()` and each combination of (record in
mapping/buffer) x (payload in mapping/buffer) is reached with these bounds;
larger values only repeat them.  ReaderWriter uses the MultiStore bounds;
the reader's two remaps interleave with every writer call.  Alignment:
heads of 4 and 8 bytes, `add()` of 1 or 2 bytes, builders up
to 12 bytes and 32 bytes of data, so every residue modulo 4 is reached
before `finalize()`, several times over.  The run is a release build so
that a wrong padding is not stopped by the size assert.  PyIndex: every index of the 8-bit range against chains
of 0-4 blocks, so indices below `-size`, multiples of `-size`, and
wrap-around of the unsigned sum all occur; slices with each bound `None` or
in `-(size+1)..size+1` and steps `None`, -2..2, so bounds before the start
and past the end, empty and reversed slices, and step 0 all occur.

Fairness.  None is assumed and every property is a safety property (or a
refinement checked as one).  The writer's calls and a reader's decision to
reload are the application's, and nothing in the code makes them happen.
The one step the code does make happen, `dataFile.reload()` right after
`indexFile.reload()` in `IndexedFileMapper::reload()`, cannot be kept from
happening by anything in the model, so a liveness property about it would
follow from its fairness alone and show nothing about the code.

## 5. Findings

1. `writeSpace()` (l. 199) is negative inside the buffer; `write()` passes it
   to memcpy (code bug).
2. The buffer branch of `write()` (l. 230) compares the cursor with
   `buffer.size()` instead of `fileEnd + buffer.size()`: writes into the
   buffer are appended at its end in a release build (code bug).  Trace:
   file `<<z>>`, one byte written (buffered), `seek(0)`, a two-byte write:
   its second byte is appended instead of overwriting the buffered byte,
   and the logical size is 3, not 2.
3. After a crash the reopened `IndexedFileMapper` exposes index records past
   the end of the data file; spec.md 5/7 promise recovery or `CorruptFile`.
   The two files flush independently (l. 246; `clearBuffer`, l. 461-462,
   flushes the index first).  Trace: one entry written (both buffered), a
   crash after the index file was extended but before the data file was
   flushed: entry 0 has offset 0 in an empty data file.  Slots `grow()`
   reserved and nobody wrote are not counted.
4. Even when readers reload only after full flushes, `writeUpdateImp`
   (l. 437-438) stores a new auxiliary offset into an index record that is
   already on disk; through the shared mapping the reader sees it at once,
   before its payload leaves the writer's data buffer, and its `getOffset`
   assert (l. 448) fails.  spec.md 5 promises readers a snapshot as of
   their last reload.
5. A writer's `truncate` (l. 478-484) shrinks both files under a reader's
   `MAP_SHARED` mappings, which only the reader's next `reload()` resizes:
   until then it holds mappings past the end of the files (zeros or
   SIGBUS), not the snapshot spec.md 5 promises.  Trace: two entries
   written and flushed, the reader's `reload()` remaps the index file (4
   offsets), and before it remaps the data file the writer truncates to
   entry 0: the index mapping is 4 offsets over an empty file.
6. After a crash inside a flush that left the index file with part of a
   record, the reopened `SimpleFileMapper` puts `writePos` at the byte size
   (l. 173); only `size()` rounds down (l. 364).  The next entry is written
   across two records, so the trailing bytes spec.md 5 says to ignore
   become half of it.
7. `Blockchain.__getitem__` (blockchain_py.cpp l. 40) normalises negative
   indices before checking the size, so any negative index on an empty
   chain divides by zero, and an index below `-len` is reduced modulo the
   size instead of raising IndexError (code bug).  Trace: an empty chain
   with an unsigned `size()`, `chain[-128]`: SIGFPE, where Python raises
   IndexError.
8. The slice overload (blockchain_py.cpp l. 48-52) passes `compute()`'s
   start, stop and step straight to `view::slice` and `view::stride`, whose
   preconditions are `0 <= start <= stop <= size()` and a positive step;
   for a negative step `compute()` returns a negative step and stop -1
   (code bug).  Trace: an empty chain, `chain[::-2]`: start = stop = -1,
   step -2, where Python returns `[]`.

## 6. Not modelled

* `FileInfo` and mio: file-system calls declared in `src/` and defined
  outside it; only their effect inside `clearBuffer`/`truncate` is
  modelled, and the partial flush of `Restart` follows spec.md 4.1 and 5.
* Streams of different alignments sharing the data cursor: spec.md 4.3
  makes the cursor's alignment the caller's obligation, and with one
  alignment `finalize()` alone keeps the cursor aligned, so no property is
  stated about payload offsets.
* `FixedSizeFileMapper::findAll` (reads a record as `*this(index)`), `fileSize`
  (calls a `SimpleFileMapper::fileSize` that does not exist), and
  `SimpleFileMapper::write(const ArbitraryLengthData&)` (calls a missing
  `dataView()`): templates that do not compile when instantiated.
* The typed-pointer plumbing (`add_const_ptr`, `tuple_cast`): a pointer is
  modelled by the offset it is taken at.
* `RawBlock`: a plain record with no state changes; its `operator==`
  ignores `realSize` and `baseSize`, which nothing in `src/` relies on.
* The other Python bindings (`__len__`, `__iter__`, the analysis
  functions): they forward to code outside `src/` or to
  pybind11 and do no arithmetic of their own.
* More than 2^32 entries (`uint32_t` entry numbers in `IndexedFileMapper`): out of TLC's reach at the real width,
  and the record stores count without bound in the model.

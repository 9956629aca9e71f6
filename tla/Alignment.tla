----------------------------- MODULE Alignment -----------------------------
(***************************************************************************)
(* The byte-level data cursor of an IndexedFileMapper<write, T0, ...>, and *)
(* ArbitraryLengthData<M>, the builder of variable-length payloads        *)
(* (file_mapper.hpp).  Payloads of every stream go to one data file, one  *)
(* after another, from a page-aligned start; spec.md 3 requires each      *)
(* payload of stream i to start at a multiple of alignof(Ti).             *)
(*                                                                         *)
(*   pos       dataFile.getWriteOffset(), in bytes                         *)
(*   raw       rawData.size() of the builder in use, 0 when there is none  *)
(*   bstream   the stream the builder's MainType belongs to                *)
(*   status    "ok" or "aborted" (an alignment assert failed)              *)
(***************************************************************************)
EXTENDS Naturals

CONSTANTS
  N,          \* number of streams
  Align,      \* Align[i] = alignof(Ti)
  HeadSize,   \* HeadSize[i] = sizeof(Ti), a multiple of alignof(Ti)
  AddSizes,   \* sizes of the values add() appends to a builder
  MaxData,    \* bound on the data file, in bytes
  MaxRaw,     \* bound on a builder's length, in bytes
  NDEBUG      \* TRUE for a release build: assert() is compiled out

Streams == 0..(N - 1)

ASSUME NDEBUG \in BOOLEAN
ASSUME \A i \in Streams : Align[i] \in Nat \ {0} /\ HeadSize[i] % Align[i] = 0

VARIABLES pos, raw, bstream, status

vars == <<pos, raw, bstream, status>>

\* Mutant: padding computed as if one byte were always missing.
FinalizeOffByOne(n, a) ==
  LET charsToAdd == (n + 1) % a IN
  IF charsToAdd > 0 THEN n + (a - charsToAdd) ELSE n

\* finalize(): the length of rawData after it is zero-padded.
Finalize(n, a) ==
  LET charsToAdd == n % a IN
  IF charsToAdd > 0 THEN n + (a - charsToAdd) ELSE n

\* Reference: the least multiple of a that is not below n.
PaddedLength(n, a) == CHOOSE m \in n..(n + a) : m % a = 0 /\ \A j \in n..(m - 1) : j % a # 0

Init ==
  /\ pos = 0
  /\ raw = 0
  /\ bstream = 0
  /\ status = "ok"

\* explicit ArbitraryLengthData(const MainType &head): rawData holds head.
NewBuilder(i) ==
  /\ status = "ok" /\ raw = 0
  /\ raw' = HeadSize[i]
  /\ bstream' = i
  /\ UNCHANGED <<pos, status>>

\* add(const T &t): sizeof(t) more bytes (add(begin, end) is several adds).
Add(sz) ==
  /\ status = "ok" /\ raw > 0
  /\ raw + sz <= MaxRaw
  /\ raw' = raw + sz
  /\ UNCHANGED <<pos, bstream, status>>

\* The builder goes out of scope without being written.
DropBuilder ==
  /\ status = "ok" /\ raw > 0
  /\ raw' = 0
  /\ UNCHANGED <<pos, bstream, status>>

\* writeNewImp / writeUpdateImp for stream i and a payload of n bytes:
\* assert n % alignof(Ti) == 0 (debug builds only), record the cursor for stream i
\* in the index record, advance it.
Put(i, n) ==
  /\ pos + n <= MaxData
  /\ IF ~NDEBUG /\ n % Align[i] # 0
       THEN status' = "aborted" /\ UNCHANGED pos
       ELSE /\ pos' = pos + n
            /\ UNCHANGED status

\* write(const T0 &) and write<i>(addressNum, const Ti &): sizeof(Ti) bytes.
WriteFixed(i) ==
  /\ status = "ok" /\ raw = 0
  /\ Put(i, HeadSize[i])
  /\ UNCHANGED <<raw, bstream>>

\* write(ArbitraryLengthData<Ti> &t) and write<i>(addressNum, ...): finalize,
\* then write t.size() bytes (the padded length).
WriteVariable ==
  /\ status = "ok" /\ raw > 0
  /\ Put(bstream, Finalize(raw, Align[bstream]))
  /\ raw' = 0
  /\ UNCHANGED bstream

Next ==
  \/ \E i \in Streams : NewBuilder(i) \/ WriteFixed(i)
  \/ \E sz \in AddSizes : Add(sz)
  \/ WriteVariable
  \/ DropBuilder

Spec == Init /\ [][Next]_vars

-----------------------------------------------------------------------------
\* finalize() on the builder in use pads it to the least multiple of its
\* head type's alignment that is not below its length (spec.md 4.4): no
\* padding when already aligned, never a whole extra unit.
FinalizeIsLeastMultiple ==
  raw > 0 => Finalize(raw, Align[bstream]) = PaddedLength(raw, Align[bstream])
=============================================================================

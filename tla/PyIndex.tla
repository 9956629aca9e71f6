------------------------------ MODULE PyIndex ------------------------------
(***************************************************************************)
(* Blockchain.__getitem__(int64_t i) of the Python binding                 *)
(* (and, below, the overload for a py::slice)                              *)
(* (src/src/python-interface/blockchain_py.cpp): a negative index is       *)
(* normalised with (chain.size() + i) % chain.size(), the result is cast   *)
(* to uint64_t and compared with size(), and chain[i] is returned.         *)
(*                                                                         *)
(* Blockchain::size() is declared outside src/, so whether it is signed    *)
(* is not known here; signedSize is chosen in Init and both builds are     *)
(* checked.  A signed size (int, or uint32_t, which promotes to int64_t    *)
(* beside i) makes the arithmetic signed with C++ truncating %; a size_t   *)
(* size makes it unsigned modulo 2^64.  Width stands for 64: the           *)
(* wrap-around behaves the same at any width wider than the chain.         *)
(*                                                                         *)
(*   chainSize   chain.size() of the Blockchain object                     *)
(*   request     the last key passed from Python: an int, or a slice      *)
(*               [start, stop, step] whose fields may be None              *)
(*   outcome     what the call did: a block height, IndexError, or a       *)
(*               division by zero (SIGFPE: the interpreter dies, so no     *)
(*               further call is made)                                     *)
(***************************************************************************)
EXTENDS Integers, Sequences

CONSTANTS
  Width,      \* bits of int64_t / uint64_t in the model
  MinChain,   \* smallest chain opened
  MaxChain,   \* largest chain opened
  None,       \* Python's None, an omitted field of a slice
  KeyKinds    \* which overloads Python calls: a subset of {"int", "slice"}

ASSUME Width \in Nat /\ Width >= 3 /\ 2^(Width - 1) > 2 * MaxChain
ASSUME MinChain \in Nat /\ MinChain <= MaxChain
ASSUME KeyKinds \subseteq {"int", "slice"}

VARIABLES chainSize, signedSize, request, outcome

vars == <<chainSize, signedSize, request, outcome>>

Int64 == -(2^(Width - 1)) .. (2^(Width - 1) - 1)

\* Conversion to uint64_t: reduction modulo 2^64.
ToUnsigned(x) == x % (2^Width)

\* Conversion of a size_t back to ptrdiff_t (range_difference_t).
ToSigned(u) == IF u >= 2^(Width - 1) THEN u - 2^Width ELSE u

\* C++ % on signed operands truncates toward zero.
SignedMod(a, b) == IF a >= 0 THEN a % b ELSE -((-a) % b)

Block(h) == [kind |-> "block", height |-> h]
IndexError == [kind |-> "index_error", height |-> 0]
DivByZero == [kind |-> "sigfpe", height |-> 0]
NoCall == [kind |-> "none", height |-> 0]
Blocks(s) == [kind |-> "blocks", heights |-> s]
ValueError == [kind |-> "value_error", height |-> 0]
\* A call of view::slice or view::stride outside its precondition: a debug
\* build aborts in RANGES_EXPECT, a release build iterates outside the
\* chain.
RangeViolation == [kind |-> "range_violation", height |-> 0]

IntKey(i) == [kind |-> "int", i |-> i]
SliceKey(a, b, c) == [kind |-> "slice", start |-> a, stop |-> b, step |-> c]

\* The slices Python passes: bounds a little past either end of the chain,
\* steps of either sign and 0, each field possibly omitted.
SliceBounds == {None} \cup (-(MaxChain + 1))..(MaxChain + 1)
SliceSteps == {None, -2, -1, 0, 1, 2}

\* One bound of the slice as PySlice_AdjustIndices clamps it to len.
AdjustBound(x, len, step) ==
  IF x < 0
    THEN IF x + len < 0 THEN (IF step < 0 THEN -1 ELSE 0) ELSE x + len
    ELSE IF x >= len THEN (IF step < 0 THEN len - 1 ELSE len) ELSE x

\* slice.compute(length, &start, &stop, &step, &slicelength): pybind11
\* hands the four size_t outputs to PySlice_GetIndicesEx as Py_ssize_t;
\* here the signed results, before the bits are read back as size_t.  An
\* omitted start or stop is PY_SSIZE_T_MAX or MIN, which clamp to the ends.
Compute(len, key) ==
  LET step  == IF key.step = None THEN 1 ELSE key.step
      start == IF key.start = None THEN (IF step < 0 THEN len - 1 ELSE 0)
               ELSE AdjustBound(key.start, len, step)
      stop  == IF key.stop = None THEN (IF step < 0 THEN -1 ELSE len)
               ELSE AdjustBound(key.stop, len, step)
      n == IF step < 0
             THEN IF stop < start THEN (start - stop - 1) \div (-step) + 1 ELSE 0
             ELSE IF start < stop THEN (stop - start - 1) \div step + 1 ELSE 0
  IN [start |-> start, stop |-> stop, step |-> step, slicelength |-> n]

\* The lambda bound to __getitem__(const Blockchain&, py::slice): compute()
\* fails (a ValueError is set) for step 0; start, stop and step are size_t,
\* and view::slice and view::stride take them back as ptrdiff_t; slice
\* expects 0 <= from <= to <= size(), stride expects a positive step.
SliceGetItem(size, key) ==
  IF key.step = 0 THEN ValueError
  ELSE LET c    == Compute(size, key)
           from == ToSigned(ToUnsigned(c.start))
           to   == ToSigned(ToUnsigned(c.stop))
           step == ToSigned(ToUnsigned(c.step))
       IN IF ~(0 <= from /\ from <= to /\ to <= size /\ step > 0) THEN RangeViolation
          ELSE Blocks([j \in 1..(IF from < to THEN (to - from - 1) \div step + 1 ELSE 0) |->
                         from + (j - 1) * step])

\* The lambda bound to __getitem__(const Blockchain&, int64_t).
GetItem(size, isSigned, i) ==
  IF i < 0 /\ size = 0 THEN DivByZero
  ELSE LET j == IF i >= 0 THEN i
                ELSE IF isSigned THEN SignedMod(size + i, size)
                ELSE ToUnsigned(size + i) % size
       IN IF ToUnsigned(j) >= size THEN IndexError ELSE Block(j)

\* Python's sequence rule: -len <= i < len selects i mod len, else IndexError;
\* a slice selects start, start + step, ... (slicelength of them), and a
\* step of 0 raises ValueError.
PythonGetItem(size, key) ==
  IF key.kind = "int"
    THEN IF -size <= key.i /\ key.i < size
           THEN Block(IF key.i < 0 THEN size + key.i ELSE key.i) ELSE IndexError
    ELSE IF key.step = 0 THEN ValueError
    ELSE LET c == Compute(size, key)
         IN Blocks([j \in 1..c.slicelength |-> c.start + (j - 1) * c.step])

\* The Blockchain constructor opens a chain of some height.
Init ==
  /\ chainSize \in MinChain..MaxChain
  /\ signedSize \in BOOLEAN
  /\ request = IntKey(0)
  /\ outcome = NoCall

\* Python evaluates chain[i].
Call(i) ==
  /\ outcome # DivByZero
  /\ request' = IntKey(i)
  /\ outcome' = GetItem(chainSize, signedSize, i)
  /\ UNCHANGED <<chainSize, signedSize>>

\* Python evaluates chain[start:stop:step].
CallSlice(a, b, c) ==
  /\ outcome # DivByZero
  /\ request' = SliceKey(a, b, c)
  /\ outcome' = SliceGetItem(chainSize, SliceKey(a, b, c))
  /\ UNCHANGED <<chainSize, signedSize>>

Next ==
  \/ "int" \in KeyKinds /\ \E i \in Int64 : Call(i)
  \/ "slice" \in KeyKinds /\ \E a, b \in SliceBounds, c \in SliceSteps : CallSlice(a, b, c)

Spec == Init /\ [][Next]_vars

-----------------------------------------------------------------------------
\* __getitem__ follows Python's indexing rule: the block at i mod size for
\* -size <= i < size, IndexError for every other index (the empty chain
\* included, where the C++ division by zero is no IndexError), and for a
\* slice the blocks Python's slicing selects, in its order.
MatchesPython == outcome # NoCall => outcome = PythonGetItem(chainSize, request)
=============================================================================

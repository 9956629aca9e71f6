--------------------------- MODULE ByteStoreSpec ---------------------------
(***************************************************************************)
(* What a write-mode byte store promises its callers (spec.md 4.1): a     *)
(* logical byte array with a write cursor.  A write at the cursor          *)
(* overwrites the bytes there and extends the array past its end; seek     *)
(* moves the cursor anywhere in [0, size]; truncate resizes the array      *)
(* (zero-filling when it grows) and clamps the cursor; a store through a  *)
(* pointer the store handed out overwrites one byte in place.  Flushing    *)
(* and reloading are invisible at this level.                              *)
(***************************************************************************)
EXTENDS Naturals, Sequences

CONSTANTS
  Bytes,        \* the byte values a record may hold
  Zero,         \* the byte a growing truncate fills with
  WriteLens,    \* lengths of the byte strings written in one call
  InitSize,     \* longest file that exists when the store is opened
  MaxSize       \* bound on the logical size, to keep the model finite

ASSUME Zero \in Bytes
ASSUME WriteLens \subseteq Nat \ {0}

VARIABLES content, cursor

Strings(lens) == UNION {[1..n -> Bytes] : n \in lens}

\* s with the bytes of v written from 0-based position at on, growing s
\* when the write runs past its end (at <= Len(s) when v is not empty).
Patch(s, at, v) ==
  LET n == IF v # <<>> /\ at + Len(v) > Len(s) THEN at + Len(v) ELSE Len(s)
  IN [i \in 1..n |-> IF i > at /\ i <= at + Len(v) THEN v[i - at] ELSE s[i]]

\* s cut or zero-extended to n bytes.
Resize(s, n) == [i \in 1..n |-> IF i <= Len(s) THEN s[i] ELSE Zero]

Init ==
  /\ content \in Strings(0..InitSize)
  /\ cursor = Len(content)

Write(v) ==
  /\ cursor + Len(v) <= MaxSize
  /\ content' = Patch(content, cursor, v)
  /\ cursor' = cursor + Len(v)

Seek(o) ==
  /\ o \in 0..Len(content)
  /\ cursor' = o
  /\ UNCHANGED content

Truncate(o) ==
  /\ content' = Resize(content, o)
  /\ cursor' = IF cursor < o THEN cursor ELSE o

Overwrite(o, b) ==
  /\ o < Len(content)
  /\ content' = [content EXCEPT ![o + 1] = b]
  /\ UNCHANGED cursor

Next ==
  \/ \E v \in Strings(WriteLens) : Write(v)
  \/ \E o \in 0..MaxSize : Seek(o) \/ Truncate(o)
  \/ \E o \in 0..(MaxSize - 1), b \in Bytes : Overwrite(o, b)

Spec == Init /\ [][Next]_<<content, cursor>>
=============================================================================

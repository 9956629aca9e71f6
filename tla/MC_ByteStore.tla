---------------------------- MODULE MC_ByteStore ----------------------------
(* Model-checking instance of ByteStore.  The cfgs give two byte values,  *)
(* a logical file of a few bytes and a small buffer threshold, so that    *)
(* flushes inside write() happen; MC_ByteStore.cfg writes up to three     *)
(* bytes over a one-byte threshold, so that one write can straddle the    *)
(* end of the mapping, fill the buffer and flush it.                      *)
EXTENDS ByteStore
=============================================================================

---------------------------- MODULE MC_MultiStore ---------------------------
(* Model-checking instance of MultiStore: two streams (a primary and one  *)
(* auxiliary), payloads of one or two units, three entries and four data *)
(* units.  Buffer thresholds of one record and two units make each file  *)
(* flush on its own inside write(), so an index record and the payload   *)
(* it points at are often one in the mapping and one in the buffer.      *)
EXTENDS MultiStore
=============================================================================

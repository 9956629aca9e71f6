---------------------------- MODULE MC_Alignment ----------------------------
(* Two streams.  EqualAlign: both 4-byte aligned, heads of 4 and 8 bytes. *)
(* add() appends 1 or 2 bytes, so every residue modulo 4 is reached.      *)
EXTENDS Alignment

EqualAlign == [i \in 0..1 |-> 4]
EqualHeads == [i \in 0..1 |-> IF i = 0 THEN 4 ELSE 8]
=============================================================================

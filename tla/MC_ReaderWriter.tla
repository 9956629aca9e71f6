--------------------------- MODULE MC_ReaderWriter --------------------------
(* Model-checking instance of ReaderWriter: one writer and one reader on  *)
(* the two files, with the MultiStore bounds (two streams, three entries, *)
(* four data units, thresholds of one record and two units).             *)
EXTENDS ReaderWriter
=============================================================================

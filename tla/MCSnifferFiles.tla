--------------------------- MODULE MCSnifferFiles ----------------------------
(* SnifferFiles with three batches: each file is filled, and the first one  *)
(* again, so that an upload can meet its successor.  Two rows let a chunk   *)
(* end within a file; the second clock exchange resets the first.           *)
EXTENDS SnifferFiles
=============================================================================

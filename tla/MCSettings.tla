----------------------------- MODULE MCSettings -----------------------------
(* A small settings block, two registers and a two-byte threshold in pages *)
(* of two bytes with one more byte behind it, and a table of two rows in   *)
(* two blocks of flash.                                                    *)
EXTENDS Storage

MCFields == {<<2, 2>>}
MCBytes == {"default", "new"}
=============================================================================

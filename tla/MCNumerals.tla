----------------------------- MODULE MCNumerals -----------------------------
(***************************************************************************)
(* The pure algorithms over bounded inputs, in one run.                    *)
(***************************************************************************)
EXTENDS Numerals, Vga
=============================================================================

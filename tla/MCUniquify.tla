----------------------------- MODULE MCUniquify -----------------------------
(* Small instances of Uniquify for TLC.                                     *)
EXTENDS Uniquify
=============================================================================

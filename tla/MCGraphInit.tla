---------------------------- MODULE MCGraphInit ----------------------------
(* A small instance of GraphInit.                                          *)
EXTENDS GraphInit

CONSTANTS r1, r2, r3, r4
=============================================================================

----------------------------- MODULE MCRateLimit -----------------------------
(* Small instances of RateLimit.                                           *)
EXTENDS RateLimit

CONSTANTS good, anonymous
==============================================================================

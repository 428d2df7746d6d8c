------------------------- MODULE MCSessionContext -------------------------
(* Instances of SessionContext for TLC. *)
EXTENDS SessionContext
CONSTANTS aLower, aUpper
\* Two spellings of one address.
MCLower(a) == IF a = aUpper THEN aLower ELSE a
=============================================================================

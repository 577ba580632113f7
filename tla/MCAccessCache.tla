--------------------------- MODULE MCAccessCache ---------------------------
(* AccessCache with model values.  The tenants are not declared symmetric, since
   the run checks a temporal property. *)
EXTENDS AccessCache
============================================================================
